---- MODULE Spec2Model ----
(***************************************************************************)
(* A model of the NS Publish plug-in: NoteCopier.publishNote and the       *)
(* recursive walk over wikilinks (Source/NoteCopier.ts), the link          *)
(* extraction and exclusion filter (Source/WikilinkParser.ts), the         *)
(* drawing rewrite pass (Source/ExcalidrawUtil.ts), the commands of the    *)
(* plug-in (main.ts) and the settings tab (Source/SettingsTab.ts).         *)
(*                                                                         *)
(* Representation.  A vault path is the sequence of its '/'-separated      *)
(* segments (<<"pub","d","B.md">> is pub/d/B.md; a leading '/' is an empty *)
(* first segment, the empty string is <<>>).  A note's text is its         *)
(* wikilink tokens separated by single blanks; a link text and an          *)
(* exclusion pattern are sequences of strings that concatenate to the      *)
(* text.  The vault is the pair (files, folders); published copies live    *)
(* in the same vault as the sources.                                       *)
(*                                                                         *)
(* Steps.  The plug-in runs on one thread; a call proceeds from one        *)
(* awaited storage, renderer or clipboard call to the next, and the steps  *)
(* of other calls, of the statistics command and of the settings tab come  *)
(* in between.  An action named ...Returns is the step taken when the      *)
(* awaited call settles.                                                   *)
(***************************************************************************)
EXTENDS Integers, Sequences, FiniteSets, TLC

VARIABLES
    files,        \* vault: path -> content, for every existing file
    folders,      \* vault: set of existing folder paths
    settings,     \* plugin.settings, the object NoteCopier and WikilinkParser share
    targetFolderPath, \* ExcalidrawUtil.targetFolderPath of the NoteCopier's util
    faults,       \* environment: source path -> the storage call that throws for it
    clipboardOk,  \* environment: whether navigator.clipboard.writeText resolves
    inv,          \* the publishNote invocations: id -> the locals of the call (below)
    clipboard,    \* text last written to the clipboard, or NoUrl
    past,         \* history: the finished earlier calls of this session
    budget,       \* environment: how many publishNote calls the user still makes
    preview,      \* the locals of the getPublishingStats call in progress
    stats,        \* the statistics shown last (main file and getPublishingStats' result)
    user,         \* environment: the active files, the direct calls of publishNote, the
                  \* statistics commands and settings changes still to come
    steady        \* history: the settings are those the session started with

vars == <<files, folders, settings, targetFolderPath, faults, clipboardOk, inv, clipboard,
          past, budget, preview, stats, user, steady>>

-----------------------------------------------------------------------------
(* Bounds of the model. *)

MaxDepthBound == 2     \* largest maxDepth configured or passed in options
MaxLinks == 2          \* most wikilinks in one note of the walk family
MaxRuns == 2           \* publishNote calls in one session
MaxPatterns == 2       \* most exclusion patterns configured

-----------------------------------------------------------------------------
(* Generic helpers. *)

Range(s) == {s[i] : i \in 1..Len(s)}

RECURSIVE JoinPath(_)
JoinPath(p) ==
    IF p = <<>> THEN ""
    ELSE IF Len(p) = 1 THEN p[1]
    ELSE p[1] \o "/" \o JoinPath(Tail(p))

\* createFolderRecursively, lines 224-228: the value of currentPath after each part;
\* an empty currentPath is falsy, so a leading empty part ("/out") is dropped
RECURSIVE CurrentPaths(_, _)
CurrentPaths(currentPath, parts) ==
    IF parts = <<>> THEN <<>>
    ELSE LET next == IF JoinPath(currentPath) # ""
                     THEN currentPath \o <<Head(parts)>>
                     ELSE <<Head(parts)>>
         IN  <<next>> \o CurrentPaths(next, Tail(parts))

\* F(e), with e evaluated once however often F uses its argument
Strict(F(_), e) == CHOOSE r \in {F(x) : x \in {e}} : TRUE

-----------------------------------------------------------------------------
(* TFile handles and the source vault. *)

TFile(parent, basename, extension) ==
    [path      |-> parent \o <<basename \o "." \o extension>>,
     name      |-> basename \o "." \o extension,
     basename  |-> basename,
     extension |-> extension,
     parent    |-> parent]

NoFile == [path |-> <<>>, name |-> "", basename |-> "", extension |-> "", parent |-> <<>>]

FileR == TFile(<<>>, "R", "md")
FileA == TFile(<<>>, "A", "md")
FileB == TFile(<<"d">>, "B", "md")
FileC == TFile(<<"d">>, "C", "md")
FileBp == TFile(<<>>, "B(", "md")
FileE == TFile(<<"e">>, "A", "md")
FileD == TFile(<<>>, "D", "md")
FileP == TFile(<<>>, "P", "png")
FileN == TFile(<<"A & B">>, "note name", "md")
FileH == TFile(<<>>, "c#", "md")
FileT == TFile(<<>>, "T", "md")

AllFiles == {FileR, FileA, FileB, FileC, FileBp, FileE, FileD, FileP, FileN, FileH, FileT}

\* the file with the given path string
FileAt(filePath) == CHOOSE f \in AllFiles : JoinPath(f.path) = filePath

-----------------------------------------------------------------------------
(* Note text.  A wikilink token is bang copies of "!" followed by          *)
(* [[text]] or [[text|disp]] (disp = "" when absent).                      *)

Tok(bang, text, disp) == [bang |-> bang, text |-> text, disp |-> disp]
Link(text) == Tok(0, text, "")

Note(tokens) == [drawing |-> FALSE, tokens |-> tokens, binary |-> ""]
Drawing == [drawing |-> TRUE, tokens |-> <<>>, binary |-> ""]
Binary(what) == [drawing |-> FALSE, tokens |-> <<>>, binary |-> what]

RECURSIVE TrimLeft(_)
TrimLeft(t) == IF t # <<>> /\ Head(t) = " " THEN TrimLeft(Tail(t)) ELSE t

RECURSIVE TrimRight(_)
TrimRight(t) ==
    IF t # <<>> /\ t[Len(t)] = " " THEN TrimRight(SubSeq(t, 1, Len(t) - 1)) ELSE t

Trim(t) == TrimRight(TrimLeft(t))

-----------------------------------------------------------------------------
(* Storage gateway and link resolver, as the code uses them. *)

FaultOf(path) == IF path \in DOMAIN faults THEN faults[path] ELSE "none"

\* app.vault.getAbstractFileByPath(path) is not null
Exists(v, path) == path \in DOMAIN v.files \/ path \in v.folders

\* app.vault.read / cachedRead throws
ReadThrows(v, path) == path \notin DOMAIN v.files \/ FaultOf(path) = "read"

\* app.metadataCache.getFirstLinkpathDest(linkText, sourcePath): a note is found by
\* its base name or by its vault path without the extension
LinkTable ==
    (<<"R">> :> FileR) @@ (<<"A">> :> FileA) @@ (<<"B">> :> FileB) @@
    (<<"d", "/", "B">> :> FileB) @@ (<<"C">> :> FileC) @@
    (<<"B", "(">> :> FileBp) @@ (<<"e", "/", "A">> :> FileE) @@ (<<"D">> :> FileD) @@
    (<<"P", ".", "png">> :> FileP)

GetFirstLinkpathDest(v, linkText) ==
    IF linkText \in DOMAIN LinkTable /\ LinkTable[linkText].path \in DOMAIN v.files
    THEN LinkTable[linkText]
    ELSE NoFile


-----------------------------------------------------------------------------
(* The length of a text, as String.length counts it. *)

RECURSIVE CharCount(_)
\* the number of characters of a link text
CharCount(text) == IF text = <<>> THEN 0 ELSE Len(Head(text)) + CharCount(Tail(text))

\* the length of "[[text]]", "[[text|disp]]" and their embed forms
TokenLength(token) ==
    token.bang + 2 + CharCount(token.text)
        + (IF token.disp = "" THEN 0 ELSE 1 + Len(token.disp)) + 2

RECURSIVE TokensLength(_)
TokensLength(tokens) ==
    IF tokens = <<>> THEN 0
    ELSE IF Len(tokens) = 1 THEN TokenLength(tokens[1])
    ELSE TokenLength(Head(tokens)) + 1 + TokensLength(Tail(tokens))

\* the file of the drawing of the model: the front matter that makes it a drawing
\* (isExcalidrawFile) and the Drawing section, whose line decompressExcalidrawContent
\* takes with DRAWING_COMPRESSED_REG_FALLBACK and decompresses to the JSON of a drawing
\* without elements; it holds no wikilink
DrawingText ==
    "---\nexcalidraw-plugin: parsed\n---\n# Drawing\nN4IgpgNmC2YHYBcDOIBcBtAugXyA\n%%"

\* content.length
TextLength(content) ==
    IF content.drawing THEN Len(DrawingText)
    ELSE IF content.binary # "" THEN Len(content.binary)
    ELSE TokensLength(content.tokens)

-----------------------------------------------------------------------------
(* WikilinkParser *)

\* new RegExp(pattern) does not throw: over the pattern alphabet used here
\* (letters, blank, ".", "(") exactly an unterminated group is a syntax error
RegExpCompiles(pattern) == \A i \in 1..Len(pattern) : pattern[i] # "("

\* regex.test(linkText) for a compiled pattern: unanchored, "." is any character
RegExpTest(pattern, linkText) ==
    \E i \in 0..(Len(linkText) - Len(pattern)) :
        \A j \in 1..Len(pattern) : pattern[j] = "." \/ pattern[j] = linkText[i + j]

\* linkText.includes(pattern)
Includes(linkText, pattern) ==
    \E i \in 0..(Len(linkText) - Len(pattern)) :
        SubSeq(linkText, i + 1, i + Len(pattern)) = pattern

PatternMatchesNoFallback(pattern, linkText) ==
    RegExpCompiles(pattern) /\ RegExpTest(pattern, linkText)

PatternMatches(pattern, linkText) ==
    IF RegExpCompiles(pattern)
    THEN RegExpTest(pattern, linkText)
    ELSE Includes(linkText, pattern)

\* isExcluded(linkText), with the patterns the settings hold when it is called
IsExcluded(linkText) ==
    \E k \in 1..Len(settings.excludePatterns) :
        PatternMatches(settings.excludePatterns[k], linkText)

\* WikilinkParser.isExcalidrawFile, for a file whose extension is md, once its
\* cachedRead has settled
IsExcalidrawFile(v, file) ==
    IF ReadThrows(v, file.path) THEN FALSE
    ELSE v.files[file.path].drawing \/ file.extension = "excalidraw"

\* The locals of a getLinkedFiles call.  at: the call awaited, "read" (line 18) or
\* "cachedRead" (line 114, for match n), or "done" when linkedFiles is returned.
NoScan == [at |-> "done", file |-> NoFile, tokens |-> <<>>, n |-> 0, linkedFiles |-> <<>>]

\* getLinkedFiles(file) up to its first await, line 18
GetLinkedFiles(file) == [NoScan EXCEPT !.at = "read", !.file = file]

\* the while loop of lines 24-41 from match s.n on, up to the next cachedRead
RECURSIVE NextLink(_, _)
NextLink(v, s) ==
    IF s.n > Len(s.tokens) THEN [s EXCEPT !.at = "done"]
    ELSE LET linkText   == Trim(s.tokens[s.n].text)
             linkedFile == GetFirstLinkpathDest(v, linkText)
             Rest(next) == NextLink(v, next)
         IN  IF IsExcluded(linkText) THEN Strict(Rest, [s EXCEPT !.n = @ + 1])
             ELSE IF linkedFile # NoFile /\ linkedFile.extension = "md"
                  THEN [s EXCEPT !.at = "cachedRead"]
                  ELSE Strict(Rest, [s EXCEPT !.n = @ + 1])

\* vault.read(file) settles, line 18; a failure gives no links (line 46)
ReadLinksSettles(v, s) ==
    LET Rest(next) == NextLink(v, next)
    IN  IF ReadThrows(v, s.file.path) THEN [s EXCEPT !.at = "done"]
        ELSE Strict(Rest, [s EXCEPT !.tokens = v.files[s.file.path].tokens, !.n = 1])

\* vault.cachedRead(linkedFile) settles, line 114: a drawing is passed over
CachedReadSettles(v, s) ==
    LET linkedFile == GetFirstLinkpathDest(v, Trim(s.tokens[s.n].text))
        Rest(next) == NextLink(v, next)
    IN  Strict(Rest, [s EXCEPT !.n = @ + 1,
                               !.linkedFiles = IF IsExcalidrawFile(v, linkedFile) THEN @
                                               ELSE Append(@, linkedFile)])

\* a step of a getLinkedFiles call
ScanSettles(v, s) ==
    IF s.at = "read" THEN ReadLinksSettles(v, s) ELSE CachedReadSettles(v, s)

-----------------------------------------------------------------------------
(* The locals of a copyFileToTarget call.  The vault changes when the awaited *)
(* call settles; the existence checks made before a call is issued are not   *)
(* repeated.                                                                 *)

\* at: the call awaited; file, content: the source and its text; targetPath: the local
\* of line 160; k: the index of the folder being created; text: the target's text as
\* read; processedContent, m, tried: the locals of processNoteContent; imageFolderPath,
\* imageFileName: the locals of exportExcalidrawToImage; duplicate: a createFolder of
\* this copy settled for a folder that existed by then (a record, read by no step)
NoCopy ==
    [at |-> "none", file |-> NoFile, content |-> Note(<<>>), targetPath |-> <<>>, k |-> 0,
     text |-> <<>>, processedContent |-> <<>>, m |-> 0, tried |-> {},
     imageFolderPath |-> <<>>, imageFileName |-> "", duplicate |-> FALSE]

\* what a step of the copy leaves: the vault, the locals, and how the call stands
Pending(v, c) == [v |-> v, copy |-> c, status |-> "pending", message |-> ""]
Returned(v) == [v |-> v, copy |-> NoCopy, status |-> "returned", message |-> ""]
Threw(v, message) == [v |-> v, copy |-> NoCopy, status |-> "threw", message |-> message]

\* createFolder(path) of a storage gateway that rejects a path that exists
CreateFolderRejectsExisting(v, path) ==
    [ok |-> ~Exists(v, path), message |-> "Folder already exists.",
     v |-> IF Exists(v, path) THEN v ELSE [v EXCEPT !.folders = @ \cup {path}]]

\* createFolder(path) of the storage gateway, which the sources call and do not
\* hold; as the specification describes it: idempotent, re-creating an existing
\* folder is a no-op
CreateFolder(v, path) ==
    [ok |-> TRUE, message |-> "", v |-> [v EXCEPT !.folders = @ \cup {path}]]

\* targetPath.substring(0, targetPath.lastIndexOf('/'))
FolderOf(targetPath) == SubSeq(targetPath, 1, Len(targetPath) - 1)

\* createFolderRecursively from part `from` on: the index of the first path the loop
\* finds missing, or 0 when the loop ends
NextMissingPart(v, folderPath, from) ==
    LET paths == CurrentPaths(<<>>, folderPath)
    IN  IF \E k \in from..Len(paths) : ~Exists(v, paths[k])
        THEN CHOOSE k \in from..Len(paths) :
                 /\ ~Exists(v, paths[k])
                 /\ \A j \in from..(k - 1) : Exists(v, paths[j])
        ELSE 0

\* getTargetPath(file), with the settings held when it is called; an empty
\* targetFolderPath leaves a leading "/"
GetTargetPath(file) ==
    LET fileName == IF settings.addPublishPrefix
                    THEN settings.publishPrefix \o file.name
                    ELSE file.name
        target == IF settings.targetFolderPath = <<>> THEN <<"">>
                  ELSE settings.targetFolderPath
    IN  IF settings.preserveFolderStructure
        THEN LET relativePath == file.parent
             IN  IF relativePath # <<>>
                 THEN target \o relativePath \o <<fileName>>
                 ELSE target \o <<fileName>>
        ELSE target \o <<fileName>>

-----------------------------------------------------------------------------
(* ExcalidrawUtil: the drawing rewrite pass *)

\* ExcalidrawUtil.isExcalidrawFile(fileName, currentFile) once its cachedRead has
\* settled; fileName is not trimmed
UtilIsExcalidrawFile(v, fileName) ==
    LET file == GetFirstLinkpathDest(v, fileName)
    IN  IF file = NoFile THEN FALSE
        ELSE IF ReadThrows(v, file.path) THEN FALSE
        ELSE v.files[file.path].drawing \/ file.extension = "excalidraw"

\* line 118, with the path setTargetFolderPath stored last
ImageFolderPath ==
    IF targetFolderPath # <<>>
    THEN targetFolderPath \o <<"_Image">>
    ELSE <<"_Image">>

ImageFileName(baseName, counter) ==
    IF counter = 0 THEN baseName \o ".png"
    ELSE baseName \o "_" \o ToString(counter) \o ".png"

\* a counter past every name in use, whatever the names before it
LastCounter(v, imageFolderPath, baseName) == Cardinality(DOMAIN v.files)

\* the while loop of exportExcalidrawToImage, lines 123-128: the first unused name
FreeCounter(v, imageFolderPath, baseName) ==
    CHOOSE n \in 0..Cardinality(DOMAIN v.files) :
        /\ ~Exists(v, imageFolderPath \o <<ImageFileName(baseName, n)>>)
        /\ \A m \in 0..(n - 1) : Exists(v, imageFolderPath \o <<ImageFileName(baseName, m)>>)

\* the text matched by the wikilink regex inside a token: at most one "!" of it
FullMatch(token) == [token EXCEPT !.bang = IF @ > 0 THEN 1 ELSE 0]

\* whether the string fullMatch occurs inside the token's string
Occurs(fullMatch, token) ==
    /\ token.text = fullMatch.text
    /\ token.disp = fullMatch.disp
    /\ fullMatch.bang <= token.bang

\* the replacement patterns String.prototype.replace expands in a replacement string:
\* "$$" inserts "$"; the other display texts of the model hold no "$"
GetSubstitution(displayText) == IF displayText = "$$5" THEN "$5" ELSE displayText

\* processedContent.replace(fullMatch, imageLink): the first occurrence only
ReplaceFirst(content, fullMatch, imageLink) ==
    IF \E i \in 1..Len(content) : Occurs(fullMatch, content[i])
    THEN LET i == CHOOSE k \in 1..Len(content) :
                      /\ Occurs(fullMatch, content[k])
                      /\ \A m \in 1..(k - 1) : ~Occurs(fullMatch, content[m])
         IN  [content EXCEPT ![i] = [imageLink EXCEPT
                                        !.bang = content[i].bang - fullMatch.bang + imageLink.bang,
                                        !.disp = GetSubstitution(@)]]
    ELSE content

\* a render that fails the first time the drawing is exported in a pass and works
\* afterwards (exportToBlob returning nothing once)
RenderFailsNow(s, file) == FaultOf(file.path) = "render once" /\ file.path \notin s.tried

\* processExcalidrawContent, lines 315-317: the target is written when the text changed
FinishRewrite(v, c) ==
    IF c.processedContent # c.text
    THEN Pending(v, [c EXCEPT !.at = "modifyProcessed"])
    ELSE Returned(v)

\* the loop of processNoteContent from match c.m on, up to the next awaited call: a
\* link that resolves to no file is passed over (line 246)
RECURSIVE NextMatch(_, _)
NextMatch(v, c) ==
    IF c.m > Len(c.text) THEN FinishRewrite(v, c)
    ELSE IF GetFirstLinkpathDest(v, c.text[c.m].text) = NoFile
    THEN NextMatch(v, [c EXCEPT !.m = @ + 1])
    ELSE Pending(v, [c EXCEPT !.at = "isExcalidrawFile"])

\* the cachedRead of isExcalidrawFile settles, line 251; for a drawing
\* exportExcalidrawToImage runs up to its cachedRead, line 92
IsExcalidrawFileSettles(v, c) ==
    IF UtilIsExcalidrawFile(v, c.text[c.m].text)
    THEN Pending(v, [c EXCEPT !.at = "exportRead"])
    ELSE NextMatch(v, [c EXCEPT !.m = @ + 1])

\* the cachedRead of exportExcalidrawToImage settles, line 92; the drawing is
\* decompressed and given to exportToBlob, line 102 (the drawings of the model embed
\* no files, so getExcalidrawEmbeddedFiles, line 99, reads nothing)
ExportReadSettles(v, c) ==
    LET file == GetFirstLinkpathDest(v, c.text[c.m].text)
    IN  IF ReadThrows(v, file.path) THEN NextMatch(v, [c EXCEPT !.m = @ + 1])
        ELSE Pending(v, [c EXCEPT !.at = "exportToBlob"])

\* lines 123-130: the first unused name is chosen and blob.arrayBuffer() awaited
ChooseImageFileName(v, c) ==
    LET file == GetFirstLinkpathDest(v, c.text[c.m].text)
    IN  Pending(v, [c EXCEPT !.at = "arrayBuffer",
                             !.imageFileName =
                                 ImageFileName(file.basename,
                                     FreeCounter(v, c.imageFolderPath, file.basename))])

\* ensureImageFolderExists and the loop of createFolderRecursively up to its first
\* createFolder
EnsureImageFolderExists(v, c) ==
    LET k == NextMissingPart(v, c.imageFolderPath, 1)
    IN  IF Exists(v, c.imageFolderPath) \/ k = 0
        THEN ChooseImageFileName(v, c)
        ELSE Pending(v, [c EXCEPT !.at = "createImageFolder", !.k = k])

\* exportToBlob settles, lines 102-121: without a blob the export returns null;
\* otherwise the image folder is fixed (line 118) and ensured
ExportToBlobSettles(v, c) ==
    LET file == GetFirstLinkpathDest(v, c.text[c.m].text)
        tried == [c EXCEPT !.tried = @ \cup {file.path}]
    IN  IF RenderFailsNow(c, file) \/ FaultOf(file.path) = "render"
        THEN NextMatch(v, [tried EXCEPT !.m = @ + 1])
        ELSE EnsureImageFolderExists(v, [tried EXCEPT !.imageFolderPath = ImageFolderPath])

\* createFolder for a part of the image folder settles, line 285: a rejection is
\* caught by exportExcalidrawToImage, which returns null (line 136); otherwise the loop
\* goes on with the next part
ImageFolderSettles(v, c) ==
    LET paths == CurrentPaths(<<>>, c.imageFolderPath)
        made == CreateFolder(v, paths[c.k])
    IN  IF ~made.ok
        THEN NextMatch(v, [c EXCEPT !.m = @ + 1])
        ELSE LET k == NextMissingPart(made.v, c.imageFolderPath, c.k + 1)
             IN  IF k = 0 THEN ChooseImageFileName(made.v, c)
                 ELSE Pending(made.v, [c EXCEPT !.k = k])

\* blob.arrayBuffer() settles, line 130, and createBinary is called, line 131
ArrayBufferSettles(v, c) == Pending(v, [c EXCEPT !.at = "createBinary"])

\* createBinary settles, lines 131-134 and 66-69: it throws for a path that exists by
\* now or has no folder; otherwise the image is written and the token replaced
CreateBinarySettles(v, c) ==
    LET filePath == c.imageFolderPath \o <<c.imageFileName>>
        match == c.text[c.m]
        file == GetFirstLinkpathDest(v, match.text)
    IN  IF Exists(v, filePath) \/ c.imageFolderPath \notin v.folders
        THEN NextMatch(v, [c EXCEPT !.m = @ + 1])
        ELSE NextMatch([v EXCEPT !.files = @ @@ (filePath :> Binary(JoinPath(file.path)))],
                       [c EXCEPT !.m = @ + 1,
                                 !.processedContent =
                                     ReplaceFirst(@, FullMatch(match),
                                                  Tok(1, <<c.imageFileName>>, match.disp))])

-----------------------------------------------------------------------------
(* NoteCopier: the copy *)

\* lines 166-174 with every target written by vault.create
IssueWriteCreateOnly(v, c) == Pending(v, [c EXCEPT !.at = "create"])

\* lines 166-174: modify for an existing file, create otherwise
IssueWrite(v, c) ==
    Pending(v, [c EXCEPT !.at = IF c.targetPath \in DOMAIN v.files
                                THEN "modify" ELSE "create"])

\* createFolderRecursively from part `from` on, up to its next createFolder
CreateFolderRecursively(v, c, from) ==
    LET k == NextMissingPart(v, FolderOf(c.targetPath), from)
    IN  IF k = 0 THEN IssueWrite(v, c)
        ELSE Pending(v, [c EXCEPT !.at = "createFolder", !.k = k])

\* ensureTargetFolderExists(targetPath)
EnsureTargetFolderExists(v, c) ==
    LET folderPath == FolderOf(c.targetPath)
    IN  IF JoinPath(folderPath) = "" \/ Exists(v, folderPath)
        THEN IssueWrite(v, c)
        ELSE CreateFolderRecursively(v, c, 1)

\* copyFileToTarget(file) up to its first await, the read of line 159
CopyFileToTarget(file) == [NoCopy EXCEPT !.at = "readSource", !.file = file]

\* vault.read(file) settles, line 159; the target path is computed (line 160) and
\* its folder ensured
ReadSourceSettles(v, c) ==
    IF ReadThrows(v, c.file.path) THEN Threw(v, "read failed")
    ELSE EnsureTargetFolderExists(v, [c EXCEPT !.content = v.files[c.file.path],
                                               !.targetPath = GetTargetPath(c.file)])

\* createFolder for a part of the target folder settles, line 231: a rejection is
\* thrown on to copyFileToTarget; otherwise the loop goes on with the next part
CreateFolderSettles(v, c) ==
    LET paths == CurrentPaths(<<>>, FolderOf(c.targetPath))
        made == CreateFolder(v, paths[c.k])
    IN  IF FaultOf(c.file.path) = "mkdir" THEN Threw(v, "createFolder failed")
        ELSE IF ~made.ok THEN Threw(v, made.message)
        ELSE CreateFolderRecursively(made.v,
                 [c EXCEPT !.duplicate = @ \/ Exists(v, paths[c.k])], c.k + 1)

\* vault.modify or vault.create of the target settles; processExcalidrawContent then
\* reads the target (line 312)
WriteSettles(v, c) ==
    IF FaultOf(c.file.path) = "write" THEN Threw(v, "write failed")
    ELSE IF c.at = "create" /\ c.targetPath \in DOMAIN v.files
    THEN Threw(v, "File already exists.")
    ELSE IF c.at = "create"
            /\ \/ c.targetPath \in v.folders
               \/ Len(c.targetPath) > 1 /\ FolderOf(c.targetPath) \notin v.folders
    THEN Threw(v, "create failed")
    ELSE Pending([v EXCEPT !.files = (c.targetPath :> c.content) @@ @],
                 [c EXCEPT !.at = "readTarget"])

\* the read of the target settles (line 312) and processNoteContent starts; an error
\* is swallowed (line 318)
ReadTargetSettles(v, c) ==
    IF ReadThrows(v, c.targetPath) THEN Returned(v)
    ELSE NextMatch(v, [c EXCEPT !.text = v.files[c.targetPath].tokens,
                                !.processedContent = v.files[c.targetPath].tokens,
                                !.m = 1, !.tried = {}])

\* vault.modify(targetFile, processedContent) settles, line 316
ModifyProcessedSettles(v, c) ==
    Returned(IF c.targetPath \in DOMAIN v.files
             THEN [v EXCEPT !.files[c.targetPath].tokens = c.processedContent]
             ELSE v)

\* line 179: throw new Error(`Failed to copy ${file.path}: ${error.message}`)
Wrap(file, message) == "Failed to copy " \o JoinPath(file.path) \o ": " \o message

-----------------------------------------------------------------------------
(* NoteCopier: the published URL *)

NoUrl == ""

RECURSIVE Concat(_)
Concat(chars) == IF chars = <<>> THEN "" ELSE Head(chars) \o Concat(Tail(chars))

\* the characters of the path segments that occur in the model
Chars ==
    ("R" :> <<"R">>) @@ ("A" :> <<"A">>) @@ ("B" :> <<"B">>) @@ ("C" :> <<"C">>) @@
    ("D" :> <<"D">>) @@ ("d" :> <<"d">>) @@ ("e" :> <<"e">>) @@ ("B(" :> <<"B", "(">>) @@
    ("A & B" :> <<"A", " ", "&", " ", "B">>) @@
    ("note name" :> <<"n", "o", "t", "e", " ", "n", "a", "m", "e">>) @@
    ("c#" :> <<"c", "#">>) @@ ("T" :> <<"T">>)

\* the segment with its '&' left alone
KeepAmpersand(t) == t

\* segment.replace(/\s*&\s*/g, '--and--')
RECURSIVE ReplaceAmpersand(_)
ReplaceAmpersand(t) ==
    IF t = <<>> THEN <<>>
    ELSE LET rest == TrimLeft(t)
         IN  IF rest # <<>> /\ Head(rest) = "&"
             THEN <<"--and--">> \o ReplaceAmpersand(TrimLeft(Tail(rest)))
             ELSE <<Head(t)>> \o ReplaceAmpersand(Tail(t))

\* segment.replace(/\s+/g, '-')
RECURSIVE ReplaceSpaces(_)
ReplaceSpaces(t) ==
    IF t = <<>> THEN <<>>
    ELSE IF Head(t) = " " THEN <<"-">> \o ReplaceSpaces(TrimLeft(t))
    ELSE <<Head(t)>> \o ReplaceSpaces(Tail(t))

\* encodeURIComponent, character by character
EncodeChar(c) ==
    IF c = " " THEN "%20" ELSE IF c = "&" THEN "%26" ELSE IF c = "/" THEN "%2F"
    ELSE IF c = "#" THEN "%23" ELSE c

EncodeURIComponent(t) == [i \in 1..Len(t) |-> EncodeChar(t[i])]

UrlSegment(segment) ==
    Concat(EncodeURIComponent(ReplaceSpaces(ReplaceAmpersand(Chars[segment]))))

\* generatePublishedUrl(file), for a file whose extension is md
GeneratePublishedUrl(file) ==
    IF settings.baseUrl = "" THEN NoUrl
    ELSE LET pathWithoutExtension == file.parent \o <<file.basename>>
         IN  settings.baseUrl \o "/" \o
             JoinPath([i \in 1..Len(pathWithoutExtension) |-> UrlSegment(pathWithoutExtension[i])])


-----------------------------------------------------------------------------
(* NoteCopier.publishNote *)

Vault == [files |-> files, folders |-> folders]

Undefined == <<>>
Options(includeLinked, optMaxDepth) ==
    [includeLinked |-> includeLinked, maxDepth |-> optMaxDepth, excludePatterns |-> Undefined]

\* validatePublishPrerequisites without the check of the extension
ValidateAnyExtension(file) ==
    IF file = NoFile THEN [isValid |-> FALSE, error |-> "No file provided"]
    ELSE IF settings.targetFolderPath = <<>>
    THEN [isValid |-> FALSE, error |-> "Please configure target folder path in settings"]
    ELSE [isValid |-> TRUE, error |-> ""]

\* validatePublishPrerequisites(file), lines 240-254
ValidatePublishPrerequisites(file) ==
    IF file = NoFile THEN [isValid |-> FALSE, error |-> "No file provided"]
    ELSE IF file.extension # "md"
    THEN [isValid |-> FALSE, error |-> "Can only publish markdown files"]
    ELSE IF settings.targetFolderPath = <<>>
    THEN [isValid |-> FALSE, error |-> "Please configure target folder path in settings"]
    ELSE [isValid |-> TRUE, error |-> ""]

\* String.prototype.includes / startsWith on a path, by its segments: the segments
\* of the model that hold "..", a backslash or a colon; a leading "/" is an empty
\* first segment
SegmentIncludes(segment, what) ==
    <<segment, what>> \in {<<"..", "..">>, <<"a\\b", "\\">>, <<"C:", ":">>}

PathIncludes(folderPath, what) ==
    \E i \in 1..Len(folderPath) : SegmentIncludes(folderPath[i], what)

\* isValidTargetPath(folderPath); no method of the plugin calls it
IsValidTargetPath(folderPath) ==
    IF folderPath = <<>> \/ PathIncludes(folderPath, "..") \/ PathIncludes(folderPath, "\\")
    THEN FALSE
    ELSE folderPath[1] # "" /\ ~PathIncludes(folderPath, ":")

\* options.maxDepth || this.settings.maxDepth
EffectiveMaxDepth(options) ==
    IF options.maxDepth # Undefined /\ options.maxDepth[1] # 0
    THEN options.maxDepth[1]
    ELSE settings.maxDepth

EmptyResult == [publishedFiles |-> {}, skippedFiles |-> {}, errors |-> <<>>]

\* a call of publishNoteRecursively: at its entry ("call"), awaiting copyFileToTarget
\* ("copy"), awaiting getLinkedFiles ("links") or in the loop over linkedFiles ("loop")
Frame(file, depth) == [file |-> file, depth |-> depth, state |-> "call", linkedFiles |-> <<>>, i |-> 0]

\* the recursion is at most maxDepth + 2 calls deep (depths 0 to maxDepth + 1); the
\* model stops a deeper one
StackLimit == MaxDepthBound + 2

\* the publishNote calls that can be in progress at once in the model
Invocations == {1, 2}

\* the positions of a call that has not settled
Running == {"single", "walk", "finish", "clipboard"}

IdleInvocation ==
    [pc |-> "idle", call |-> [file |-> NoFile, options |-> Options(FALSE, Undefined)],
     result |-> EmptyResult, maxDepth |-> 0, visited |-> {}, processing |-> {},
     stack |-> <<>>, copies |-> <<>>, copy |-> NoCopy, scan |-> NoScan, url |-> NoUrl,
     alone |-> TRUE]

TopOf(r) == r.stack[Len(r.stack)]
\* A return that leaves the activation on the stack (not what the code does).
KeepStack(r) == r.stack
PopOf(r) == SubSeq(r.stack, 1, Len(r.stack) - 1)

\* workspace.getActiveFile(): a file of the vault the user has in front
ActiveFiles == {f \in user.active : f.path \in DOMAIN files}

\* publishCurrentNote, main.ts lines 93-105: the ribbon calls it for any active file,
\* the command for an active markdown file; the options are read from the settings
PublishCurrentNote ==
    {[file |-> f,
      options |-> [includeLinked   |-> settings.includeLinkedNotes,
                   maxDepth        |-> <<settings.maxDepth>>,
                   excludePatterns |-> <<settings.excludePatterns>>]] : f \in ActiveFiles}

\* publishCurrentNoteOnly, main.ts lines 120-130, reached through its command (lines
\* 42-50) for an active markdown file
PublishCurrentNoteOnly ==
    {[file |-> f, options |-> Options(FALSE, Undefined)] :
        f \in {g \in ActiveFiles : g.extension = "md"}}

\* the arguments of the next publishNote call: those of the two commands, and those
\* of a direct call of the public method (its default options, no file, a maxDepth or
\* excludePatterns of the caller's choice)
CallArgs == PublishCurrentNote \cup PublishCurrentNoteOnly \cup user.direct

\* publishCurrentNote (main.ts lines 93-115) calls publishNote whenever the user asks:
\* nothing waits for a call in progress.  The call takes the first free slot.
CanCall(i) ==
    /\ budget > 0
    /\ inv[i].pc = "idle"
    /\ \A j \in 1..(i - 1) : inv[j].pc \in Running

\* the invocations once call i has started with the locals r
Started(i, r) ==
    [j \in Invocations |->
        IF j = i
        THEN [r EXCEPT !.alone = \A k \in Invocations \ {i} : inv[k].pc \notin Running]
        ELSE IF inv[j].pc \in Running THEN [inv[j] EXCEPT !.alone = FALSE]
        ELSE inv[j]]

\* EntryCheck that forgets the paths in progress
EntryCheckVisitedOnly(r, filePath, depth) ==
    IF filePath \in r.visited THEN "return"
    ELSE IF depth > r.maxDepth THEN "skip"
    ELSE "proceed"

\* EntryCheck with the depth bound off by one
EntryCheckOffByOne(r, filePath, depth) ==
    IF filePath \in r.visited \/ filePath \in r.processing THEN "return"
    ELSE IF depth >= r.maxDepth THEN "skip"
    ELSE "proceed"

\* publishNoteRecursively, lines 116-123: "return", "skip" or "proceed"
EntryCheck(r, filePath, depth) ==
    IF filePath \in r.visited \/ filePath \in r.processing THEN "return"
    ELSE IF depth > r.maxDepth THEN "skip"
    ELSE "proceed"

\* publishSingleNote, lines 80-84, once copyFileToTarget has settled
SingleSettles(r, o) ==
    [r EXCEPT !.copy = NoCopy,
              !.pc = "finish",
              !.result = IF o.status = "threw"
                         THEN [@ EXCEPT !.errors =
                                  Append(@, Wrap(r.call.file, Wrap(r.call.file, o.message)))]
                         ELSE [@ EXCEPT !.publishedFiles = @ \cup {JoinPath(r.call.file.path)}]]

\* publishNoteRecursively, lines 129-131: the copy returned, the path is published and
\* getLinkedFiles runs up to its read
CopyReturned(r) ==
    [r EXCEPT !.copy = NoCopy,
              !.result.publishedFiles = @ \cup {JoinPath(TopOf(r).file.path)},
              !.scan = GetLinkedFiles(TopOf(r).file),
              !.stack[Len(r.stack)].state = "links"]

\* CopyThrew without the finally block: the path stays in progress
CopyThrewNoFinally(r, message) ==
    [r EXCEPT !.copy = NoCopy,
              !.result.errors =
                  Append(@, "Error processing " \o JoinPath(TopOf(r).file.path)
                                \o ": " \o message),
              !.stack = PopOf(r)]

\* publishNoteRecursively, lines 144-151: the copy threw; catch, then finally
CopyThrew(r, message) ==
    [r EXCEPT !.copy = NoCopy,
              !.result.errors =
                  Append(@, "Error processing " \o JoinPath(TopOf(r).file.path)
                                \o ": " \o message),
              !.processing = @ \ {JoinPath(TopOf(r).file.path)},
              !.visited = @ \cup {JoinPath(TopOf(r).file.path)},
              !.stack = PopOf(r)]

\* the locals of a call after a step o of its copyFileToTarget
AfterCopy(r, o) ==
    IF o.status = "pending" THEN [r EXCEPT !.copy = o.copy]
    ELSE IF r.pc = "single" THEN SingleSettles(r, o)
    ELSE IF o.status = "threw" THEN CopyThrew(r, Wrap(TopOf(r).file, o.message))
    ELSE CopyReturned(r)

\* the locals of a walk after a step s of its getLinkedFiles: when the list is
\* returned the loop of lines 133-142 starts
AfterScan(r, s) ==
    IF s.at = "done"
    THEN [r EXCEPT !.scan = NoScan,
                   !.stack[Len(r.stack)] =
                       [@ EXCEPT !.state = "loop", !.linkedFiles = s.linkedFiles, !.i = 1]]
    ELSE [r EXCEPT !.scan = s]

\* what the steps of a publishNote call leave alone

\* publishNote, lines 25-37: a prerequisite fails
PublishInvalid(i) ==
    /\ CanCall(i)
    /\ \E args \in CallArgs :
        LET validation == ValidatePublishPrerequisites(args.file)
        IN  /\ ~validation.isValid
            /\ inv' = Started(i, [IdleInvocation EXCEPT
                                     !.call = args,
                                     !.result.errors = <<validation.error>>,
                                     !.pc = "return"])
    /\ budget' = budget - 1
    /\ UNCHANGED <<files, folders, targetFolderPath, clipboard, past,
                   settings, faults, clipboardOk, user, steady,
                   preview, stats>>

\* publishNote with includeLinked: publishNoteWithLinks up to the first recursive call
PublishWithLinks(i) ==
    /\ CanCall(i)
    /\ \E args \in CallArgs :
        /\ ValidatePublishPrerequisites(args.file).isValid
        /\ args.options.includeLinked
        /\ inv' = Started(i, [IdleInvocation EXCEPT
                                 !.call = args,
                                 !.maxDepth = EffectiveMaxDepth(args.options),
                                 !.stack = <<Frame(args.file, 0)>>,
                                 !.pc = "walk"])
    /\ budget' = budget - 1
    /\ UNCHANGED <<files, folders, targetFolderPath, clipboard, past,
                   settings, faults, clipboardOk, user, steady,
                   preview, stats>>

\* publishNote without includeLinked: publishSingleNote up to the read of
\* copyFileToTarget, line 159
PublishSingle(i) ==
    /\ CanCall(i)
    /\ \E args \in CallArgs :
        /\ ValidatePublishPrerequisites(args.file).isValid
        /\ ~args.options.includeLinked
        /\ inv' = Started(i, [IdleInvocation EXCEPT
                                 !.call = args,
                                 !.copies = <<JoinPath(args.file.path)>>,
                                 !.copy = CopyFileToTarget(args.file),
                                 !.pc = "single"])
    /\ budget' = budget - 1
    /\ UNCHANGED <<files, folders, targetFolderPath, clipboard, past,
                   settings, faults, clipboardOk, user, steady,
                   preview, stats>>

\* lines 116-118: the cycle and duplicate guard
GuardReturn(i) ==
    /\ inv[i].pc = "walk" /\ inv[i].stack # <<>> /\ TopOf(inv[i]).state = "call"
    /\ EntryCheck(inv[i], JoinPath(TopOf(inv[i]).file.path), TopOf(inv[i]).depth) = "return"
    /\ inv' = [inv EXCEPT ![i].stack = PopOf(inv[i])]
    /\ UNCHANGED <<files, folders, targetFolderPath, clipboard, past, budget,
                   settings, faults, clipboardOk, user, steady,
                   preview, stats>>

\* lines 120-123: beyond the depth bound
SkipDepth(i) ==
    /\ inv[i].pc = "walk" /\ inv[i].stack # <<>> /\ TopOf(inv[i]).state = "call"
    /\ EntryCheck(inv[i], JoinPath(TopOf(inv[i]).file.path), TopOf(inv[i]).depth) = "skip"
    /\ inv' = [inv EXCEPT ![i] =
                  [@ EXCEPT !.result.skippedFiles = @ \cup {JoinPath(TopOf(inv[i]).file.path)},
                            !.stack = PopOf(inv[i])]]
    /\ UNCHANGED <<files, folders, targetFolderPath, clipboard, past, budget,
                   settings, faults, clipboardOk, user, steady,
                   preview, stats>>

\* lines 125-128: the path is in progress and copyFileToTarget runs up to its read of
\* the source, line 159
Materialize(i) ==
    /\ inv[i].pc = "walk" /\ inv[i].stack # <<>> /\ TopOf(inv[i]).state = "call"
    /\ EntryCheck(inv[i], JoinPath(TopOf(inv[i]).file.path), TopOf(inv[i]).depth) = "proceed"
    /\ LET filePath == JoinPath(TopOf(inv[i]).file.path)
       IN  inv' = [inv EXCEPT ![i] =
                      [@ EXCEPT !.processing = @ \cup {filePath},
                                !.copies = Append(@, filePath),
                                !.copy = CopyFileToTarget(TopOf(inv[i]).file),
                                !.stack[Len(inv[i].stack)].state = "copy"]]
    /\ UNCHANGED <<files, folders, targetFolderPath, clipboard, past, budget,
                   settings, faults, clipboardOk, user, steady,
                   preview, stats>>

\* a step o of the copyFileToTarget of call i
Settle(i, o) ==
    /\ files' = o.v.files
    /\ folders' = o.v.folders
    /\ inv' = [inv EXCEPT ![i] = AfterCopy(@, o)]
    /\ UNCHANGED <<clipboard, past, budget, settings, faults, clipboardOk, user, steady,
                   preview, stats>>

\* NoteCopier line 159: the read of the source awaited by call i settles
ReadSourceReturns(i) ==
    /\ inv[i].copy.at = "readSource"
    /\ \E o \in {ReadSourceSettles(Vault, inv[i].copy)} : Settle(i, o)
    /\ UNCHANGED targetFolderPath

\* NoteCopier lines 223-235: the createFolder awaited by call i settles
CreateFolderReturns(i) ==
    /\ inv[i].copy.at = "createFolder"
    /\ \E o \in {CreateFolderSettles(Vault, inv[i].copy)} : Settle(i, o)
    /\ UNCHANGED targetFolderPath

\* NoteCopier lines 169-176 and 311-312: the modify or create awaited by call i
\* settles; processExcalidrawContent hands the target folder of the settings to the
\* util before it reads the target
WriteReturns(i) ==
    /\ inv[i].copy.at \in {"modify", "create"}
    /\ \E o \in {WriteSettles(Vault, inv[i].copy)} :
        /\ Settle(i, o)
        /\ targetFolderPath' = IF o.status = "pending" THEN settings.targetFolderPath
                               ELSE targetFolderPath

\* NoteCopier line 312: the read of the target settles
ReadTargetReturns(i) ==
    /\ inv[i].copy.at = "readTarget"
    /\ \E o \in {ReadTargetSettles(Vault, inv[i].copy)} : Settle(i, o)
    /\ UNCHANGED targetFolderPath

\* ExcalidrawUtil line 251: the cachedRead of isExcalidrawFile settles
IsExcalidrawFileReturns(i) ==
    /\ inv[i].copy.at = "isExcalidrawFile"
    /\ \E o \in {IsExcalidrawFileSettles(Vault, inv[i].copy)} : Settle(i, o)
    /\ UNCHANGED targetFolderPath

\* ExcalidrawUtil line 92: the cachedRead of the drawing settles
ExportReadReturns(i) ==
    /\ inv[i].copy.at = "exportRead"
    /\ \E o \in {ExportReadSettles(Vault, inv[i].copy)} : Settle(i, o)
    /\ UNCHANGED targetFolderPath

\* ExcalidrawUtil line 102: exportToBlob settles
ExportToBlobReturns(i) ==
    /\ inv[i].copy.at = "exportToBlob"
    /\ \E o \in {ExportToBlobSettles(Vault, inv[i].copy)} : Settle(i, o)
    /\ UNCHANGED targetFolderPath

\* ExcalidrawUtil lines 277-289: the createFolder of the image folder settles
ImageFolderReturns(i) ==
    /\ inv[i].copy.at = "createImageFolder"
    /\ \E o \in {ImageFolderSettles(Vault, inv[i].copy)} : Settle(i, o)
    /\ UNCHANGED targetFolderPath

\* ExcalidrawUtil line 130: blob.arrayBuffer() settles
ArrayBufferReturns(i) ==
    /\ inv[i].copy.at = "arrayBuffer"
    /\ \E o \in {ArrayBufferSettles(Vault, inv[i].copy)} : Settle(i, o)
    /\ UNCHANGED targetFolderPath

\* ExcalidrawUtil line 131: createBinary settles
CreateBinaryReturns(i) ==
    /\ inv[i].copy.at = "createBinary"
    /\ \E o \in {CreateBinarySettles(Vault, inv[i].copy)} : Settle(i, o)
    /\ UNCHANGED targetFolderPath

\* NoteCopier line 316: the modify of the rewritten target settles
ModifyProcessedReturns(i) ==
    /\ inv[i].copy.at = "modifyProcessed"
    /\ \E o \in {ModifyProcessedSettles(Vault, inv[i].copy)} : Settle(i, o)
    /\ UNCHANGED targetFolderPath

\* WikilinkParser line 18: the read of getLinkedFiles awaited by call i settles
ReadLinksReturns(i) ==
    /\ inv[i].pc = "walk" /\ inv[i].scan.at = "read"
    /\ \E s \in {ReadLinksSettles(Vault, inv[i].scan)} :
        inv' = [inv EXCEPT ![i] = AfterScan(@, s)]
    /\ UNCHANGED <<files, folders, targetFolderPath, clipboard, past, budget,
                   settings, faults, clipboardOk, user, steady,
                   preview, stats>>

\* WikilinkParser line 114: the cachedRead of isExcalidrawFile awaited by call i settles
CachedReadReturns(i) ==
    /\ inv[i].pc = "walk" /\ inv[i].scan.at = "cachedRead"
    /\ \E s \in {CachedReadSettles(Vault, inv[i].scan)} :
        inv' = [inv EXCEPT ![i] = AfterScan(@, s)]
    /\ UNCHANGED <<files, folders, targetFolderPath, clipboard, past, budget,
                   settings, faults, clipboardOk, user, steady,
                   preview, stats>>

\* lines 133-142: the next linked file, one level deeper
Recurse(i) ==
    /\ inv[i].pc = "walk" /\ inv[i].stack # <<>> /\ TopOf(inv[i]).state = "loop"
    /\ TopOf(inv[i]).i <= Len(TopOf(inv[i]).linkedFiles)
    /\ Len(inv[i].stack) < StackLimit
    /\ inv' = [inv EXCEPT ![i].stack =
                  Append([inv[i].stack EXCEPT ![Len(inv[i].stack)].i = @ + 1],
                         Frame(TopOf(inv[i]).linkedFiles[TopOf(inv[i]).i],
                               TopOf(inv[i]).depth + 1))]
    /\ UNCHANGED <<files, folders, targetFolderPath, clipboard, past, budget,
                   settings, faults, clipboardOk, user, steady,
                   preview, stats>>

\* lines 148-151: the loop is over; finally
Finally(i) ==
    /\ inv[i].pc = "walk" /\ inv[i].stack # <<>> /\ TopOf(inv[i]).state = "loop"
    /\ TopOf(inv[i]).i > Len(TopOf(inv[i]).linkedFiles)
    /\ inv' = [inv EXCEPT ![i] =
                  [@ EXCEPT !.processing = @ \ {JoinPath(TopOf(inv[i]).file.path)},
                            !.visited = @ \cup {JoinPath(TopOf(inv[i]).file.path)},
                            !.stack = PopOf(inv[i])]]
    /\ UNCHANGED <<files, folders, targetFolderPath, clipboard, past, budget,
                   settings, faults, clipboardOk, user, steady,
                   preview, stats>>

\* publishNoteWithLinks returns to publishNote
WalkReturns(i) ==
    /\ inv[i].pc = "walk" /\ inv[i].stack = <<>>
    /\ inv' = [inv EXCEPT ![i].pc = "finish"]
    /\ UNCHANGED <<files, folders, targetFolderPath, clipboard, past, budget,
                   settings, faults, clipboardOk, user, steady,
                   preview, stats>>

\* what a finished call leaves behind
Record(r, outcome) ==
    [call |-> r.call, outcome |-> outcome, result |-> r.result, copies |-> r.copies,
     processing |-> r.processing, alone |-> r.alone, files |-> files, folders |-> folders]

\* lines 48-72: with something published and a URL, clipboard.writeText is called
\* (line 67); otherwise the result is returned
Finish(i) ==
    /\ inv[i].pc = "finish"
    /\ LET publishedUrl == GeneratePublishedUrl(inv[i].call.file)
       IN  inv' = [inv EXCEPT ![i] =
                      IF inv[i].result.publishedFiles # {} /\ publishedUrl # NoUrl
                      THEN [@ EXCEPT !.pc = "clipboard", !.url = publishedUrl]
                      ELSE [@ EXCEPT !.pc = "return"]]
    /\ UNCHANGED <<files, folders, targetFolderPath, clipboard, past, budget,
                   settings, faults, clipboardOk, user, steady,
                   preview, stats>>

\* line 67: clipboard.writeText resolves and the result is returned
ClipboardReturns(i) ==
    /\ inv[i].pc = "clipboard"
    /\ clipboardOk
    /\ clipboard' = inv[i].url
    /\ inv' = [inv EXCEPT ![i].pc = "return"]
    /\ UNCHANGED <<files, folders, targetFolderPath, past, budget,
                   settings, faults, clipboardOk, user, steady,
                   preview, stats>>

\* line 67: clipboard.writeText rejects, outside of the try block
ClipboardThrows(i) ==
    /\ inv[i].pc = "clipboard"
    /\ ~clipboardOk
    /\ inv' = [inv EXCEPT ![i].pc = "threw"]
    /\ UNCHANGED <<files, folders, targetFolderPath, clipboard, past, budget,
                   settings, faults, clipboardOk, user, steady,
                   preview, stats>>

\* the caller has the outcome of call i
Complete(i) ==
    /\ inv[i].pc \in {"return", "threw"}
    /\ past' = Append(past, Record(inv[i], inv[i].pc))
    /\ inv' = [inv EXCEPT ![i].pc = "idle"]
    /\ UNCHANGED <<files, folders, targetFolderPath, clipboard, budget,
                   settings, faults, clipboardOk, user, steady,
                   preview, stats>>

-----------------------------------------------------------------------------
(* NoteCopier.getPublishingStats and WikilinkParser.getAllLinkedFilesRecursively *)

NoStats == [file |-> NoFile, totalFiles |-> 0, linkedFiles |-> <<>>, estimatedSize |-> 0]

\* The locals of a getPublishingStats call.  pc: the call awaited, "main" (the read of
\* line 280), "links" (a call of getLinkedFiles, WikilinkParser line 93) or "sizes"
\* (the read of line 291 for linkedFiles[k]); "done" when stats is returned.  maxDepth,
\* visited, allLinkedFiles (the Set in insertion order) and stack are those of
\* getAllLinkedFilesRecursively and its helper; scan is the getLinkedFiles in progress.
NoPreview ==
    [pc |-> "idle", file |-> NoFile, includeLinked |-> FALSE, stats |-> NoStats,
     maxDepth |-> 0, visited |-> {}, allLinkedFiles |-> <<>>, stack |-> <<>>,
     scan |-> NoScan, k |-> 0]

\* Set.add on a Set kept in insertion order
AddToSet(set, x) == IF x \in Range(set) THEN set ELSE Append(set, x)

RECURSIVE HelperResume(_)
RECURSIVE GetAllLinkedFilesRecursivelyHelper(_, _, _)

\* getAllLinkedFilesRecursivelyHelper(file, maxDepth, currentDepth, visited,
\* allLinkedFiles), lines 86-93, up to its call of getLinkedFiles
GetAllLinkedFilesRecursivelyHelper(p, file, currentDepth) ==
    IF currentDepth >= p.maxDepth \/ JoinPath(file.path) \in p.visited
    THEN HelperResume(p)
    ELSE [p EXCEPT !.visited = @ \cup {JoinPath(file.path)},
                   !.stack = Append(@, [Frame(file, currentDepth) EXCEPT !.state = "links"]),
                   !.scan = GetLinkedFiles(file),
                   !.pc = "links"]

\* the for loop of the helper on top of the stack, lines 95-106, from its next linked
\* file on, up to the next call of getLinkedFiles; with an empty stack the helper of
\* the start file has returned
HelperResume(p) ==
    IF p.stack = <<>> THEN [p EXCEPT !.pc = "linked"]
    ELSE LET top == p.stack[Len(p.stack)]
         IN  IF top.i > Len(top.linkedFiles)
             THEN HelperResume([p EXCEPT !.stack = SubSeq(@, 1, Len(@) - 1)])
             ELSE GetAllLinkedFilesRecursivelyHelper(
                      [p EXCEPT !.allLinkedFiles = AddToSet(@, top.linkedFiles[top.i]),
                                !.stack[Len(p.stack)].i = @ + 1],
                      top.linkedFiles[top.i], top.depth + 1)

\* getAllLinkedFilesRecursively(startFile), lines 61-74: maxDepth defaults to the
\* settings' when the call is made
GetAllLinkedFilesRecursively(p, startFile) ==
    GetAllLinkedFilesRecursivelyHelper(
        [p EXCEPT !.maxDepth = settings.maxDepth, !.visited = {}, !.allLinkedFiles = <<>>],
        startFile, 0)

\* getPublishingStats, lines 285-291, once allLinkedFiles is returned: up to the read
\* of the first linked file
CountLinkedFiles(p) ==
    IF p.pc # "linked" THEN p
    ELSE LET counted == [p EXCEPT !.stats.linkedFiles = p.allLinkedFiles,
                                  !.stats.totalFiles = @ + Len(p.allLinkedFiles)]
         IN  IF p.allLinkedFiles = <<>> THEN [counted EXCEPT !.pc = "done"]
             ELSE [counted EXCEPT !.pc = "sizes", !.k = 1]

\* the read of the main file settles, lines 280-284; a failure ends the call with the
\* statistics as they stand (line 299)
StatsReadSettles(v, p) ==
    IF ReadThrows(v, p.file.path) THEN [p EXCEPT !.pc = "done"]
    ELSE LET sized == [p EXCEPT !.stats.estimatedSize = @ + TextLength(v.files[p.file.path])]
         IN  IF p.includeLinked
             THEN CountLinkedFiles(GetAllLinkedFilesRecursively(sized, p.file))
             ELSE [sized EXCEPT !.pc = "done"]

\* a step of the getLinkedFiles awaited by the helper settles; when the list is
\* returned the helper's loop runs on
StatsLinksSettle(v, p) ==
    LET s == ScanSettles(v, p.scan)
    IN  IF s.at = "done"
        THEN CountLinkedFiles(HelperResume(
                 [p EXCEPT !.scan = NoScan,
                           !.stack[Len(p.stack)] =
                               [@ EXCEPT !.state = "loop", !.linkedFiles = s.linkedFiles,
                                         !.i = 1]]))
        ELSE [p EXCEPT !.scan = s]

\* the read of a linked file settles, lines 291-295; a failure is passed over
StatsSizeSettles(v, p) ==
    LET linkedFile == p.stats.linkedFiles[p.k]
        sized == IF ReadThrows(v, linkedFile.path) THEN p
                 ELSE [p EXCEPT !.stats.estimatedSize = @ + TextLength(v.files[linkedFile.path])]
    IN  IF p.k = Len(p.stats.linkedFiles) THEN [sized EXCEPT !.pc = "done"]
        ELSE [sized EXCEPT !.k = @ + 1]

\* a step of getPublishingStats that leaves the locals p: when the statistics are
\* returned showPublishingStats shows them (main.ts lines 158-178)
StatsStep(p) ==
    /\ preview' = IF p.pc = "done" THEN NoPreview ELSE p
    /\ stats' = IF p.pc = "done" THEN p.stats ELSE stats
    /\ UNCHANGED <<files, folders, targetFolderPath, inv, clipboard, past, budget, 
                   settings, faults, clipboardOk, user, steady>>

\* showPublishingStats, main.ts lines 58-62 and 145-156: the command runs for an active
\* markdown file, whatever publishNote calls are in progress; getPublishingStats runs
\* up to the read of line 280.  The model follows one statistics call at a time.
ShowPublishingStats ==
    /\ user.previews > 0
    /\ preview.pc = "idle"
    /\ \E file \in {f \in ActiveFiles : f.extension = "md"} :
        preview' = [NoPreview EXCEPT !.pc = "main", !.file = file,
                                     !.includeLinked = settings.includeLinkedNotes,
                                     !.stats = [NoStats EXCEPT !.file = file, !.totalFiles = 1]]
    /\ user' = [user EXCEPT !.previews = @ - 1]
    /\ UNCHANGED <<files, folders, settings, targetFolderPath, faults, clipboardOk, inv,
                   clipboard, past, budget, stats, steady>>

\* NoteCopier line 280: the read of the main file settles
StatsReadReturns ==
    /\ preview.pc = "main"
    /\ \E p \in {StatsReadSettles(Vault, preview)} : StatsStep(p)

\* WikilinkParser lines 18 and 114: a read of the getLinkedFiles awaited by the helper
\* settles
StatsLinksReturn ==
    /\ preview.pc = "links"
    /\ \E p \in {StatsLinksSettle(Vault, preview)} : StatsStep(p)

\* NoteCopier line 291: the read of a linked file settles
StatsSizeReturns ==
    /\ preview.pc = "sizes"
    /\ \E p \in {StatsSizeSettles(Vault, preview)} : StatsStep(p)

-----------------------------------------------------------------------------
(* The settings tab *)

\* the settings after one onChange handler of the settings tab, SettingsTab.ts lines
\* 32, 43, 55-57, 69, 80, 94, 107-110 and 122: one field is assigned
\* (the user types the folder "pub", the pattern "A", no base URL or "http://x")
ChangedSettings(st) ==
    {[st EXCEPT !.targetFolderPath = t] : t \in {<<"pub">>}}
    \cup {[st EXCEPT !.includeLinkedNotes = ~@]}
    \cup {[st EXCEPT !.maxDepth = n] : n \in 1..MaxDepthBound}
    \cup {[st EXCEPT !.preserveFolderStructure = ~@]}
    \cup {[st EXCEPT !.addPublishPrefix = ~@]}
    \cup {[st EXCEPT !.publishPrefix = x] : x \in IF st.addPublishPrefix THEN {"pub_"} ELSE {}}
    \cup {[st EXCEPT !.excludePatterns = ps] : ps \in {<<<<"A">>>>}}
    \cup {[st EXCEPT !.baseUrl = u] : u \in {"", "http://x"}}

\* a field of plugin.settings is changed in the settings tab; saveSettings hands the
\* same object to NoteCopier.updateSettings (main.ts line 86, NoteCopier lines 259-262)
\* and WikilinkParser.updateSettings (line 135), whatever calls are in progress
UpdateSettings ==
    /\ user.changes > 0
    /\ \E newSettings \in ChangedSettings(settings) \ {settings} : settings' = newSettings
    /\ user' = [user EXCEPT !.changes = @ - 1]
    /\ steady' = FALSE
    /\ UNCHANGED <<files, folders, targetFolderPath, faults, clipboardOk, inv, clipboard,
                   past, budget, preview, stats>>

Next ==
    \/ \E i \in Invocations : PublishInvalid(i)
    \/ \E i \in Invocations : PublishWithLinks(i)
    \/ \E i \in Invocations : PublishSingle(i)
    \/ \E i \in Invocations : GuardReturn(i)
    \/ \E i \in Invocations : SkipDepth(i)
    \/ \E i \in Invocations : Materialize(i)
    \/ \E i \in Invocations : ReadSourceReturns(i)
    \/ \E i \in Invocations : CreateFolderReturns(i)
    \/ \E i \in Invocations : WriteReturns(i)
    \/ \E i \in Invocations : ReadTargetReturns(i)
    \/ \E i \in Invocations : IsExcalidrawFileReturns(i)
    \/ \E i \in Invocations : ExportReadReturns(i)
    \/ \E i \in Invocations : ExportToBlobReturns(i)
    \/ \E i \in Invocations : ImageFolderReturns(i)
    \/ \E i \in Invocations : ArrayBufferReturns(i)
    \/ \E i \in Invocations : CreateBinaryReturns(i)
    \/ \E i \in Invocations : ModifyProcessedReturns(i)
    \/ \E i \in Invocations : ReadLinksReturns(i)
    \/ \E i \in Invocations : CachedReadReturns(i)
    \/ \E i \in Invocations : Recurse(i)
    \/ \E i \in Invocations : Finally(i)
    \/ \E i \in Invocations : WalkReturns(i)
    \/ \E i \in Invocations : Finish(i)
    \/ \E i \in Invocations : ClipboardReturns(i)
    \/ \E i \in Invocations : ClipboardThrows(i)
    \/ \E i \in Invocations : Complete(i)
    \/ ShowPublishingStats
    \/ StatsReadReturns
    \/ StatsLinksReturn
    \/ StatsSizeReturns
    \/ UpdateSettings

-----------------------------------------------------------------------------
(* Initial states: the vault, the settings and the environment the plug-in *)
(* is constructed in.                                                      *)

\* DEFAULT_SETTINGS of types.ts, with the depth left to the environment
Settings(target, depth, excludePatterns, preserve, addPrefix, baseUrl) ==
    [targetFolderPath        |-> target,
     includeLinkedNotes      |-> TRUE,
     maxDepth                |-> depth,
     excludePatterns         |-> excludePatterns,
     preserveFolderStructure |-> preserve,
     addPublishPrefix        |-> addPrefix,
     publishPrefix           |-> "published_",
     baseUrl                 |-> baseUrl]

TargetFolder == <<"700_Publish">>
BaseUrl == "http://172.28.35.242:8080"

PlainSettings(depth) == Settings(TargetFolder, depth, <<>>, TRUE, FALSE, BaseUrl)

\* the sequences of at most MaxLinks links to distinct notes among the given ones
LinkLists(texts) ==
    UNION {{l \in [1..n -> {Link(t) : t \in texts}] :
               \A i, j \in 1..n : l[i] = l[j] => i = j} : n \in 0..MaxLinks}

\* the folders the source files of the vault lie in
SourceFolders(fs) ==
    UNION {{SubSeq(p, 1, n) : n \in 1..(Len(p) - 1)} : p \in DOMAIN fs}

\* what the user does in a session: the files that are active when a command runs, the
\* direct calls of publishNote, and how many statistics commands and settings changes
User(active, direct, previews, changes) ==
    [active |-> active, direct |-> direct, previews |-> previews, changes |-> changes]

Env(fs, st, fl, ok, calls, usr) ==
    [files |-> fs, settings |-> st, faults |-> fl, clipboardOk |-> ok, calls |-> calls,
     user |-> usr]

NoFaults == [p \in {} |-> "none"]

\* direct calls of publishNote for the root: with the default options (line 25), with
\* no file, and with maxDepth 0
DirectCalls ==
    {[file |-> FileR, options |-> Options(TRUE, Undefined)],
     [file |-> NoFile, options |-> Options(TRUE, Undefined)],
     [file |-> FileR, options |-> Options(TRUE, <<0>>)]}

\* link graphs over the notes R, A, B, C; any of them may be active
WalkVault(r, a, b) ==
    (FileR.path :> Note(r)) @@ (FileA.path :> Note(a)) @@
    (FileB.path :> Note(b)) @@ (FileC.path :> Note(<<>>))

WalkEnvs ==
    {Env(WalkVault(r, a, b), PlainSettings(d), NoFaults, TRUE, 1,
         User({FileR, FileA, FileB, FileC}, DirectCalls, 0, 0)) :
        r \in LinkLists({<<"A">>, <<"B">>}),
        a \in LinkLists({<<"R">>, <<"B">>}),
        b \in {<<>>, <<Link(<<"C">>)>>, <<Link(<<"R">>)>>, <<Link(<<"B">>)>>},
        d \in 1..MaxDepthBound}

\* the vault of the other families: R -> B, A, D (a drawing, embedded), P (an image);
\* A -> R, B;  B -> C, e/A;  e/A -> R, D;  A.md and e/A.md share their file name;
\* A & B/note name has no links; c# -> D (with a display text), C
SmallVault ==
    (FileR.path :> Note(<<Link(<<"B">>), Link(<<"A">>), Tok(1, <<"D">>, "fig"),
                          Link(<<"P", ".", "png">>)>>)) @@
    (FileA.path :> Note(<<Link(<<"R">>), Link(<<"B">>)>>)) @@
    (FileB.path :> Note(<<Link(<<"C">>), Link(<<"e", "/", "A">>)>>)) @@
    (FileC.path :> Note(<<>>)) @@
    (FileE.path :> Note(<<Link(<<"R">>), Link(<<"D">>)>>)) @@
    (FileD.path :> Drawing) @@
    (FileP.path :> Binary("png")) @@
    (FileN.path :> Note(<<>>)) @@
    (FileH.path :> Note(<<Tok(0, <<"D">>, "$$5"), Link(<<"C">>)>>))

\* storage failures: one storage call fails for one note, or none; the drawing may not be read or
\* rendered, the clipboard may reject
FaultEnvs ==
    {Env(SmallVault, PlainSettings(MaxDepthBound), fl @@ (FileD.path :> fd), TRUE, 1,
         User({FileR, FileB}, {}, 0, 0)) :
        fl \in {NoFaults} \cup {p :> k : p \in {FileR.path, FileA.path, FileB.path},
                                           k \in {"read", "mkdir", "write"}},
        fd \in {"none", "read", "render"}}
    \cup {Env(SmallVault, PlainSettings(MaxDepthBound), NoFaults, FALSE, 1,
              User({FileR, FileB}, {}, 0, 0))}

\* an image the user already keeps in the _Image folder of the target
OldImage(t) == (t \o <<"_Image", "D.png">>) :> Binary("old")

\* settings: target folder, folder structure, prefix, base URL; any file may be active
UrlEnvs ==
    {Env(SmallVault, Settings(t, MaxDepthBound, <<>>, p, a, u), NoFaults, TRUE, 1,
         User({f \in AllFiles : f.path \in DOMAIN SmallVault}, {}, 0, 0)) :
        t \in {<<>>, TargetFolder, <<"pub", "out">>},
        p \in BOOLEAN, a \in BOOLEAN, u \in {"", "http://x"}}

\* the vault of the sessions with several calls: R -> B, D (embedded); B -> R;
\* A & B/note name has no links
RepublishVault ==
    (FileR.path :> Note(<<Link(<<"B">>), Tok(1, <<"D">>, "fig")>>)) @@
    (FileB.path :> Note(<<Link(<<"R">>)>>)) @@
    (FileD.path :> Drawing) @@
    (FileN.path :> Note(<<>>))

\* a note is published again, after the first call or during it, with or without its
\* linked notes; with or without an image already in the target; or with a drawing
\* that does not render, or a linked note whose target cannot be written
RepublishEnvs ==
    {Env(RepublishVault @@ (IF old THEN OldImage(TargetFolder) ELSE NoFaults),
         Settings(TargetFolder, 1, <<>>, p, FALSE, BaseUrl), NoFaults, TRUE, MaxRuns,
         User({FileR, FileN}, {}, 0, 0)) :
        p \in BOOLEAN, old \in BOOLEAN}
    \cup {Env(RepublishVault, Settings(TargetFolder, 1, <<>>, TRUE, FALSE, BaseUrl),
              fd, TRUE, MaxRuns, User({FileR}, {}, 0, 0)) :
             fd \in {FileD.path :> "render", FileB.path :> "write"}}

\* a note T with several links to the drawing D, embedded and plain, and a link that
\* does not resolve; the drawing may fail to render, always or the first time
RewriteEnvs ==
    {Env((FileT.path :> Note(ts)) @@ (FileD.path :> Drawing), PlainSettings(1),
         FileD.path :> fd, TRUE, 1, User({FileT, FileD}, {}, 0, 0)) :
        ts \in {<<Tok(1, <<"D">>, ""), Link(<<"D">>)>>,
                <<Link(<<"D">>), Tok(1, <<"D">>, "")>>,
                <<Link(<<"X">>), Tok(1, <<"D">>, "fig"), Link(<<"D">>)>>},
        fd \in {"none", "read", "render", "render once"}}

\* target folders that leave the vault: "../out", "/out", "C:/out", "a\\b"
TraversalTargets == {<<"..", "out">>, <<"", "out">>, <<"C:", "out">>, <<"a\\b">>}

TraversalEnvs ==
    {Env(SmallVault, Settings(t, 1, <<>>, TRUE, FALSE, ""), NoFaults, TRUE, 1,
         User({FileR}, {}, 0, 0)) :
        t \in TraversalTargets}

\* exclusion patterns: valid and invalid regular expressions against the links of R
ExclVault ==
    (FileR.path :> Note(<<Link(<<" ", "A", " ">>), Link(<<"B", "(">>), Link(<<"d", "/", "B">>),
                          Link(<<"C">>), Link(<<"X">>)>>)) @@
    (FileA.path :> Note(<<Link(<<"B">>)>>)) @@
    (FileB.path :> Note(<<>>)) @@
    (FileC.path :> Note(<<>>)) @@
    (FileBp.path :> Note(<<Link(<<"C">>)>>))

Patterns == {<<"A">>, <<"B", "(">>, <<"(">>, <<"d", ".", "B">>, <<".", "(">>, <<"A", ".">>, <<"X">>}

\* with the pattern lists a direct call carries in options.excludePatterns
ExclEnvs ==
    {Env(ExclVault, Settings(TargetFolder, MaxDepthBound, ps, TRUE, FALSE, BaseUrl),
         NoFaults, TRUE, 1,
         User({FileR},
              {[file |-> FileR,
                options |-> [Options(TRUE, Undefined) EXCEPT !.excludePatterns = <<os>>]] :
                  os \in {<<>>, <<<<"C">>>>}}, 0, 0)) :
        ps \in UNION {[1..n -> Patterns] : n \in 0..MaxPatterns}}

\* the statistics command, before, during or after a publish: on the vault of the
\* other families and on two link graphs
StatsEnvs ==
    {Env(fs, PlainSettings(d), NoFaults, TRUE, 1, User({FileR}, {}, 1, 0)) :
        fs \in {SmallVault,
                WalkVault(<<Link(<<"A">>)>>, <<Link(<<"R">>)>>, <<>>),
                WalkVault(<<Link(<<"A">>), Link(<<"B">>)>>, <<Link(<<"B">>)>>,
                          <<Link(<<"C">>)>>)},
        d \in 1..MaxDepthBound}
    \cup {Env(SmallVault, PlainSettings(MaxDepthBound), FileB.path :> "read", TRUE, 0,
              User({FileR, FileA, FileD}, {}, 1, 0))}

\* a setting is changed in the settings tab, before, during or after a publish
SettingsEnvs ==
    {Env(SmallVault, PlainSettings(MaxDepthBound), NoFaults, TRUE, 1,
         User({FileR}, {}, 0, 1))}

Environments == WalkEnvs \cup FaultEnvs \cup UrlEnvs \cup RepublishEnvs \cup ExclEnvs
                \cup TraversalEnvs \cup RewriteEnvs \cup StatsEnvs \cup SettingsEnvs

Init ==
    /\ \E env \in Environments :
        /\ files = env.files
        /\ folders = SourceFolders(env.files)
        /\ settings = env.settings
        /\ faults = env.faults
        /\ clipboardOk = env.clipboardOk
        /\ budget = env.calls
        /\ user = env.user
    /\ targetFolderPath = <<>>
    /\ inv = [i \in Invocations |-> IdleInvocation]
    /\ clipboard = NoUrl
    /\ past = <<>>
    /\ preview = NoPreview
    /\ stats = NoStats
    /\ steady = TRUE

Spec == Init /\ [][Next]_vars

\* the steps of publishNoteRecursively, of its copies and of its link scans in call i,
\* and the return of publishNoteWithLinks
Walk(i) ==
    \/ GuardReturn(i)
    \/ SkipDepth(i)
    \/ Materialize(i)
    \/ ReadSourceReturns(i)
    \/ CreateFolderReturns(i)
    \/ WriteReturns(i)
    \/ ReadTargetReturns(i)
    \/ IsExcalidrawFileReturns(i)
    \/ ExportReadReturns(i)
    \/ ExportToBlobReturns(i)
    \/ ImageFolderReturns(i)
    \/ ArrayBufferReturns(i)
    \/ CreateBinaryReturns(i)
    \/ ModifyProcessedReturns(i)
    \/ ReadLinksReturns(i)
    \/ CachedReadReturns(i)
    \/ Recurse(i)
    \/ Finally(i)
    \/ WalkReturns(i)

\* every storage, renderer and resolver call settles, so a walk in progress takes its
\* next step
FairSpec == Spec /\ \A i \in Invocations : WF_vars(Walk(i))

-----------------------------------------------------------------------------
(* The invocation the claims speak of. *)

\* The locals of the invocation that started first (or alone).  Nothing in the plug-in
\* awaits publishCurrentNote (main.ts lines 17-19, 30, 46), so a second invocation
\* may start while this one waits for a storage call.
pc         == inv[1].pc          \* position of the publishNote call
call       == inv[1].call        \* arguments of the publishNote call: [file, options]
result     == inv[1].result      \* PublishResult of the call
maxDepth   == inv[1].maxDepth    \* local maxDepth of publishNoteWithLinks
visited    == inv[1].visited     \* traversal state
processing == inv[1].processing  \* traversal state
stack      == inv[1].stack       \* recursion stack of publishNoteRecursively, top last
copy       == inv[1].copy        \* locals of the copyFileToTarget in progress
alone      == inv[1].alone       \* history: no other invocation ran during this one
Top        == TopOf(inv[1])      \* the running activation of publishNoteRecursively

-----------------------------------------------------------------------------
(* The link graph the claims speak of. *)

\* the link texts each pattern of the settings, the options and the settings tab excludes,
\* among the link texts of the vault:
\* "A", "d.B" and "X" compile and match as regular expressions ("." is any character,
\* "A." needs a character after the A); "B(", "(" and ".(" do not compile and match
\* as literal substrings
ExcludedBy ==
    (<<"A">> :> {<<"A">>}) @@
    (<<"B", "(">> :> {<<"B", "(">>}) @@
    (<<"(">> :> {<<"B", "(">>}) @@
    (<<"d", ".", "B">> :> {<<"d", "/", "B">>}) @@
    (<<".", "(">> :> {}) @@
    (<<"A", ".">> :> {}) @@
    (<<"X">> :> {<<"X">>}) @@
    (<<"C">> :> {<<"C">>})

\* the notes of the links of a note that none of the given patterns excludes, in order
\* (a drawing counts as a note when it cannot be read)
KeptBy(patterns, tokens) ==
    LET kept == SelectSeq(tokens, LAMBDA t :
                    /\ \A k \in 1..Len(patterns) : Trim(t.text) \notin ExcludedBy[patterns[k]]
                    /\ Trim(t.text) \in DOMAIN LinkTable
                    /\ LinkTable[Trim(t.text)].path \in DOMAIN files
                    /\ LinkTable[Trim(t.text)].extension = "md"
                    /\ ~(/\ files[LinkTable[Trim(t.text)].path].drawing
                          /\ FaultOf(LinkTable[Trim(t.text)].path) # "read"))
    IN  [i \in 1..Len(kept) |-> LinkTable[Trim(kept[i].text)]]

\* the notes of the links of a note that no configured pattern excludes, in order
KeptLinks(tokens) == KeptBy(settings.excludePatterns, tokens)

\* the notes a note links to: resolvable, of type md, not excluded, not a drawing
Succ(filePath) ==
    IF ReadThrows(Vault, FileAt(filePath).path) THEN {}
    ELSE {JoinPath(f.path) : f \in Range(KeptLinks(files[FileAt(filePath).path].tokens))}

\* the notes reached from filePath by a chain of at most n links
RECURSIVE ReachWithin(_, _)
ReachWithin(filePath, n) ==
    IF n = 0 THEN {filePath}
    ELSE LET r == ReachWithin(filePath, n - 1)
         IN  r \cup UNION {Succ(x) : x \in r}

\* filePath lies on a cycle of links
OnCycle(filePath) ==
    \E y \in Succ(filePath) : filePath \in ReachWithin(y, Cardinality(AllFiles))

RootPath == JoinPath(call.file.path)

\* the call passed the prerequisites and walks the links
WalkCall ==
    /\ call.file # NoFile /\ call.file.extension = "md"
    /\ settings.targetFolderPath # <<>>
    /\ call.options.includeLinked

NoStorageFault == \A p \in DOMAIN faults : faults[p] = "none"

\* the folder the images of a publish go to
TargetImageFolder == settings.targetFolderPath \o <<"_Image">>

\* the depth the caller asked for
RequestedDepth ==
    IF call.options.maxDepth # Undefined THEN call.options.maxDepth[1] ELSE settings.maxDepth

-----------------------------------------------------------------------------
(* Claims *)

\* C1: for a link graph without a cycle within maxDepth, after publishNote with
\* includeLinked and no I/O failure, publishedFiles is exactly the set of notes
\* reachable from the root by a chain of at most maxDepth links, whatever the order
\* of the links inside the notes.  (Stated for the calls whose requested depth is
\* the one the walk uses, that no other call overlaps, with the settings unchanged.)
C1_PublishedIsReachableSet ==
    (/\ pc = "return" /\ alone /\ steady /\ WalkCall /\ NoStorageFault /\ result.errors = <<>>
     /\ RequestedDepth = maxDepth
     /\ \A x \in ReachWithin(RootPath, maxDepth) : ~OnCycle(x))
    => result.publishedFiles = ReachWithin(RootPath, maxDepth)

\* C2: the walk started by publishNote finishes, cycles or not, whether or not
\* another call is in progress
C2_WalkTerminates == \A i \in Invocations : (inv[i].pc = "walk") ~> (inv[i].pc = "finish")

\* a walk over a graph with a cycle through the root has returned
C2_Witness ==
    /\ pc = "finish" /\ WalkCall /\ OnCycle(RootPath)
    /\ Cardinality(visited) >= 3

\* the calls of publishNoteRecursively that passed the guard and have not returned
OpenFrames(r) ==
    {n \in 1..Len(r.stack) : r.stack[n].state \in {"copy", "links", "loop"}}

\* the calls that are in their loop over linkedFiles, in the first invocation
LoopFrames == {n \in 1..Len(stack) : stack[n].state = "loop"}

NoPathTwice(r) ==
    /\ \A n, m \in 1..Len(r.copies) : r.copies[n] = r.copies[m] => n = m
    /\ \A n, m \in OpenFrames(r) :
           r.stack[n].file.path = r.stack[m].file.path => n = m
    /\ r.pc = "walk" => r.processing = {JoinPath(r.stack[n].file.path) : n \in OpenFrames(r)}
    /\ r.visited \cap r.processing = {}
    /\ r.pc = "finish" => r.processing = {}

\* C3: within one traversal copyFileToTarget is invoked at most once per source path,
\* no call passes the guard for a path that is in processing, a path is never in both
\* visited and processing, and processing is empty when the walk returns; in every
\* invocation, overlapped or not
C3_NoPathTwice == \A i \in Invocations : NoPathTwice(inv[i])

\* a call for a path that is in processing is about to be turned away by the guard
C3_Witness ==
    /\ pc = "walk" /\ stack # <<>> /\ Top.state = "call"
    /\ JoinPath(Top.file.path) \in processing
    /\ Cardinality(processing) >= 2

\* the call on top of the stack is for a path not yet visited nor in progress
FreshCallOf(r) ==
    /\ r.pc = "walk" /\ r.stack # <<>> /\ TopOf(r).state = "call"
    /\ JoinPath(TopOf(r).file.path) \notin r.visited \cup r.processing

FreshCall == FreshCallOf(inv[1])

\* the scenario of the specification: root -> A, A -> root, A -> B, maxDepth 1
Scenario ==
    /\ WalkCall /\ maxDepth = 1 /\ NoStorageFault
    /\ call.file = FileR /\ FileA.path \in DOMAIN files
    /\ files[FileR.path].tokens = <<Link(<<"A">>)>>
    /\ files[FileA.path].tokens = <<Link(<<"R">>), Link(<<"B">>)>>

\* the step is one of invocation i (and not the start of another call, which only
\* notes the overlap)
StepOf(i) == inv'[i] # [inv[i] EXCEPT !.alone = inv'[i].alone]

\* the step invocation i takes from a fresh call at depth maxDepth: copyFileToTarget
\* is called for the path, which is not skipped
C4_AtBound ==
    \A i \in Invocations :
        (FreshCallOf(inv[i]) /\ TopOf(inv[i]).depth = inv[i].maxDepth /\ StepOf(i)) =>
            LET filePath == JoinPath(TopOf(inv[i]).file.path)
            IN  /\ inv'[i].copies = Append(inv[i].copies, filePath)
                /\ inv'[i].copy.at = "readSource" /\ inv'[i].copy.file = TopOf(inv[i]).file
                /\ filePath \in inv'[i].processing
                /\ inv'[i].result.skippedFiles = inv[i].result.skippedFiles

\* the step invocation i takes from a fresh call at depth maxDepth + 1
C4_BeyondBound ==
    \A i \in Invocations :
        (FreshCallOf(inv[i]) /\ TopOf(inv[i]).depth = inv[i].maxDepth + 1 /\ StepOf(i)) =>
            /\ JoinPath(TopOf(inv[i]).file.path) \in inv'[i].result.skippedFiles
            /\ inv'[i].result.publishedFiles = inv[i].result.publishedFiles
            /\ inv'[i].copies = inv[i].copies /\ files' = files /\ folders' = folders
            /\ inv'[i].stack = PopOf(inv[i])

\* every path given to copyFileToTarget is published or has its error when the walk
\* has returned
C4_Materialized ==
    \A i \in Invocations :
        (inv[i].pc = "finish" /\ inv[i].call.options.includeLinked) =>
            /\ inv[i].result.publishedFiles \subseteq Range(inv[i].copies)
            /\ Len(inv[i].copies)
                   = Cardinality(inv[i].result.publishedFiles) + Len(inv[i].result.errors)

\* C4: a not yet visited document reached at depth maxDepth is materialized and
\* published, one reached at depth maxDepth + 1 is recorded in skippedFiles without
\* being materialized and without its links being followed; for root -> A,
\* A -> root, A -> B and maxDepth 1 the result is {root, A} published, {B} skipped
C4_DepthBound ==
    /\ [][C4_AtBound /\ C4_BeyondBound]_vars
    /\ []C4_Materialized
    /\ []((pc = "return" /\ Scenario) =>
             /\ result.publishedFiles = {"R.md", "A.md"}
             /\ result.skippedFiles = {"d/B.md"})

\* the scenario has run to its result
C4_Witness ==
    /\ pc = "return" /\ Scenario
    /\ result.publishedFiles = {"R.md", "A.md"}
    /\ result.skippedFiles = {"d/B.md"}

\* C5: the bound of the walk is the maxDepth of the options for every value >= 0;
\* with maxDepth 0 only the root is materialized and every direct note link of the
\* root is recorded in skippedFiles, whatever the settings say
C5_OptionsDepthIsTheBound ==
    /\ (pc = "walk" /\ call.options.maxDepth # Undefined)
           => maxDepth = call.options.maxDepth[1]
    /\ (pc = "return" /\ alone /\ WalkCall /\ NoStorageFault /\ call.options.maxDepth = <<0>>)
           => /\ result.publishedFiles = {RootPath}
              /\ result.skippedFiles = Succ(RootPath) \ {RootPath}

\* C6: the list getLinkedFiles returns for a note holds the targets of exactly the
\* links whose trimmed text no configured pattern matches (as a regular expression
\* when the pattern compiles, as a literal substring otherwise), so an excluded link
\* is never followed; an invalid pattern does not make the check fail and an empty
\* pattern list excludes nothing (with the settings unchanged during the walk)
C6_ExcludedLinksNotFollowed ==
    \A i \in Invocations : steady =>
        /\ \A n \in 1..Len(inv[i].stack) :
               inv[i].stack[n].state = "loop" =>
                   inv[i].stack[n].linkedFiles
                       = KeptLinks(files[inv[i].stack[n].file.path].tokens)
        /\ \A n \in 2..Len(inv[i].stack) :
               inv[i].stack[n].file
                   \in Range(KeptLinks(files[inv[i].stack[n - 1].file.path].tokens))

\* with a pattern that does not compile and one that does, the links of the root
\* that neither matches are the ones returned
C6_Witness ==
    /\ pc = "walk" /\ Len(stack) = 1 /\ Top.state = "loop"
    /\ settings.excludePatterns = <<<<"(">>, <<"d", ".", "B">>>>
    /\ Top.linkedFiles = <<FileA, FileC>>

\* the messages copyFileToTarget throws with in the model
CopyMessages ==
    {"read failed", "createFolder failed", "write failed", "create failed",
     "Folder already exists.", "File already exists."}

\* the next step of the walk r is a storage call that throws: the read of the source,
\* the creation of a folder or the write of the target, as the environment has it
CopyFailure(r) ==
    IF r.copy.at = "readSource" /\ FaultOf(r.copy.file.path) = "read"
    THEN "read failed"
    ELSE IF r.copy.at = "createFolder" /\ FaultOf(r.copy.file.path) = "mkdir"
    THEN "createFolder failed"
    ELSE IF r.copy.at \in {"modify", "create"} /\ FaultOf(r.copy.file.path) = "write"
    THEN "write failed"
    ELSE ""

\* the step of a walk in which a storage call of a copy throws
C7_FailureIsRecorded ==
    \A i \in Invocations :
        (inv[i].pc = "walk" /\ StepOf(i) /\ CopyFailure(inv[i]) # "") =>
            LET filePath == JoinPath(TopOf(inv[i]).file.path)
            IN  /\ inv'[i].result.errors = Append(inv[i].result.errors,
                        "Error processing " \o filePath \o ": Failed to copy " \o filePath
                            \o ": " \o CopyFailure(inv[i]))
                /\ inv'[i].result.publishedFiles = inv[i].result.publishedFiles
                /\ filePath \notin inv'[i].result.publishedFiles
                /\ filePath \notin inv'[i].processing /\ filePath \in inv'[i].visited
                /\ inv'[i].pc = "walk" /\ inv'[i].stack = PopOf(inv[i])

\* the paths of the errors recorded by the walk r
FailedPathsOf(r) ==
    {JoinPath(f.path) : f \in {g \in AllFiles : \E n \in 1..Len(r.result.errors) :
        \E m \in CopyMessages :
            r.result.errors[n] = "Error processing " \o JoinPath(g.path) \o ": Failed to copy "
                                     \o JoinPath(g.path) \o ": " \o m}}

FailedPaths == FailedPathsOf(inv[1])

\* C7: when materializing a document fails during the walk, exactly one error
\* "Error processing <path>: <message>" is appended, the path is not added to
\* publishedFiles, it leaves processing for visited, and the walk goes on with the
\* remaining links of the parent: every link of a published note is visited or skipped
C7_NodeFailureIsLocal ==
    /\ [][C7_FailureIsRecorded]_vars
    /\ [](\A i \in Invocations : inv[i].pc = "walk" =>
             /\ FailedPathsOf(inv[i]) \subseteq inv[i].visited
             /\ FailedPathsOf(inv[i]) \cap inv[i].result.publishedFiles = {}
             /\ Len(inv[i].result.errors) = Cardinality(FailedPathsOf(inv[i])))
    /\ [](\A i \in Invocations :
             (inv[i].pc = "finish" /\ inv[i].call.options.includeLinked /\ steady) =>
             \A x \in inv[i].result.publishedFiles :
                 Succ(x) \subseteq inv[i].visited \cup inv[i].result.skippedFiles)

\* writing the copy of B failed; its sibling A was published after it
C7_Witness ==
    /\ pc = "finish" /\ WalkCall /\ call.file = FileR
    /\ result.errors = <<"Error processing d/B.md: Failed to copy d/B.md: write failed">>
    /\ "d/B.md" \in visited /\ "d/B.md" \notin result.publishedFiles
    /\ "A.md" \in result.publishedFiles

\* C8: publishNote never re-throws, whatever fails, the clipboard write included
C8_NeverRethrows == pc # "threw"

\* a prerequisite of publishNote does not hold for the file
PrerequisiteFails(file) ==
    \/ file = NoFile
    \/ file.extension # "md"
    \/ settings.targetFolderPath = <<>>

\* the step in which publishNote is called with a prerequisite failing
C9_ReturnsAtOnce ==
    \A i \in Invocations :
        (inv[i].pc = "idle" /\ inv'[i].pc # "idle" /\ PrerequisiteFails(inv'[i].call.file)) =>
            /\ inv'[i].pc = "return"
            /\ Len(inv'[i].result.errors) = 1
            /\ inv'[i].result.errors[1]
                   \in {"No file provided", "Can only publish markdown files",
                        "Please configure target folder path in settings"}
            /\ inv'[i].result.publishedFiles = {} /\ inv'[i].result.skippedFiles = {}
            /\ files' = files /\ folders' = folders
            /\ inv'[i].copies = <<>>
            /\ clipboard' = clipboard

\* C9: when a prerequisite fails (no file, extension not md, target folder unset)
\* publishNote returns before any storage read, write or folder creation: the result
\* has exactly one error and no published or skipped file, the vault is unchanged
\* and no URL is copied
C9_ValidationBeforeAnyIO ==
    /\ [][C9_ReturnsAtOnce]_vars
    /\ [](\A i \in Invocations :
             (inv[i].pc = "return" /\ steady /\ PrerequisiteFails(inv[i].call.file)) =>
             /\ Len(inv[i].result.errors) = 1
             /\ inv[i].result.publishedFiles = {} /\ inv[i].result.skippedFiles = {}
             /\ inv[i].copies = <<>>)

\* publishNote was called for an image and has returned its only error
C9_Witness ==
    /\ pc = "return" /\ call.file = FileP
    /\ result.errors = <<"Can only publish markdown files">>
    /\ files = SmallVault /\ clipboard = NoUrl

\* where a source note is copied to
DestinationOf(filePath) == GetTargetPath(FileAt(filePath))

\* the source path a finished call copied last to the target
LastCopiedTo(run, target) ==
    run.copies[CHOOSE i \in 1..Len(run.copies) :
                   /\ DestinationOf(run.copies[i]) = target
                   /\ \A j \in (i + 1)..Len(run.copies) : DestinationOf(run.copies[j]) # target]

\* the notes (not the images) of a vault
NoteFiles(fs) == {p \in DOMAIN fs : fs[p].binary = ""}

\* the link of the token resolves to a drawing
DrawingLink(fs, token) ==
    /\ token.text \in DOMAIN LinkTable
    /\ fs[LinkTable[token.text].path].drawing

\* dest is src, links to drawings apart: such a link may have become an embed that
\* names an image
DrawingLinksApart(fs, dest, src) ==
    /\ dest.drawing = src.drawing /\ dest.binary = src.binary
    /\ Len(dest.tokens) = Len(src.tokens)
    /\ \A i \in 1..Len(src.tokens) :
           \/ dest.tokens[i] = src.tokens[i]
           \/ /\ DrawingLink(fs, src.tokens[i])
              /\ dest.tokens[i].bang >= 1
              /\ TargetImageFolder \o dest.tokens[i].text \in DOMAIN fs

\* the image at the path was exported from the drawing during the k-th finished call:
\* it holds the rendering of the drawing and was not there after the call before
ExportedDuring(k, path, drawing) ==
    /\ path \in DOMAIN past[k].files
    /\ past[k].files[path].binary = JoinPath(drawing.path)
    /\ k > 1 => path \notin DOMAIN past[k - 1].files

\* an image was exported from the drawing during the k-th finished call
Exported(k, drawing) ==
    \E path \in DOMAIN past[k].files : ExportedDuring(k, path, drawing)

\* after the k-th finished call dest is src, except that each link to a drawing
\* exported during the call is the embed, with the link's display text, of an image
\* exported from that drawing during the call
SameButForDrawings(k, dest, src) ==
    /\ dest.drawing = src.drawing /\ dest.binary = src.binary
    /\ Len(dest.tokens) = Len(src.tokens)
    /\ \A i \in 1..Len(src.tokens) :
           IF /\ DrawingLink(past[k].files, src.tokens[i])
              /\ Exported(k, LinkTable[src.tokens[i].text])
           THEN \E name \in {dest.tokens[i].text} :
                    /\ dest.tokens[i] = Tok(1, name, src.tokens[i].disp)
                    /\ Len(name) = 1
                    /\ ExportedDuring(k, TargetImageFolder \o name,
                                      LinkTable[src.tokens[i].text])
           ELSE dest.tokens[i] = src.tokens[i]

\* the k-th finished call and the one before it ran one after the other
InSuccession(k) == past[k].alone /\ past[k - 1].alone

\* the k-th finished call repeats the one before it, with the settings unchanged
Republished(k) == InSuccession(k) /\ past[k].call = past[k - 1].call /\ steady

C10_SameSize ==
    \A k \in 2..Len(past) :
        Republished(k) =>
            Cardinality(past[k].result.publishedFiles)
                = Cardinality(past[k - 1].result.publishedFiles)

C10_NoAdditionalNote ==
    \A k \in 2..Len(past) :
        Republished(k) => NoteFiles(past[k].files) = NoteFiles(past[k - 1].files)

FolderExistsErrors ==
    UNION {{"Error processing " \o JoinPath(f.path) \o ": "
                \o Wrap(f, "Folder already exists."),
            Wrap(f, Wrap(f, "Folder already exists."))} : f \in AllFiles}

\* the folder whose createFolder the copy awaits
AwaitedFolder(c) == CurrentPaths(<<>>, FolderOf(c.targetPath))[c.k]

\* call i awaits the createFolder of a target folder that exists by now: it was
\* created after the call found it missing (line 230)
DuplicateCreation(i) ==
    /\ inv[i].pc # "idle" /\ inv[i].copy.at = "createFolder"
    /\ FaultOf(inv[i].copy.file.path) # "mkdir"
    /\ AwaitedFolder(inv[i].copy) \in folders

\* no call ever records that a folder exists
C11_NoFolderError ==
    \A i \in Invocations : Range(inv[i].result.errors) \cap FolderExistsErrors = {}

\* the step in which a duplicate createFolder settles: no folder is added, no error
\* recorded, and the copy of the document goes on to its next folder or to its write
C11_CopyGoesOn ==
    \A i \in Invocations :
        (DuplicateCreation(i) /\ StepOf(i)) =>
            /\ folders' = folders /\ files' = files
            /\ inv'[i].result = inv[i].result
            /\ inv'[i].copy.file = inv[i].copy.file
            /\ inv'[i].copy.content = inv[i].copy.content
            /\ inv'[i].copy.at \in {"createFolder", "create", "modify"}

\* C11: when two publish invocations overlap and need the same missing folder,
\* neither records an error, nor loses its document, because the other created the
\* folder between its existence check and its createFolder call
C11_FolderCreationTolerant == []C11_NoFolderError /\ [][C11_CopyGoesOn]_vars

\* two calls for different documents overlapped and both found the target folder
\* missing; the first created it, published and returned without error; the
\* createFolder of the second settled for the folder that existed by then, and the
\* second has written its document
C11_Witness ==
    /\ ~inv[1].alone /\ ~inv[2].alone
    /\ inv[1].call.file # inv[2].call.file
    /\ inv[1].pc = "return"
    /\ inv[1].result.publishedFiles # {} /\ inv[1].result.errors = <<>>
    /\ inv[2].copy.duplicate /\ inv[2].copy.at = "readTarget"
    /\ DestinationOf(JoinPath(inv[2].copy.file.path)) \in DOMAIN files
    /\ inv[2].result.errors = <<>>

\* the path part of the URL of each root, as the README and the specification give it
ExpectedUrlPath ==
    (FileR.path :> "/R") @@ (FileA.path :> "/A") @@ (FileB.path :> "/d/B") @@
    (FileC.path :> "/d/C") @@ (FileE.path :> "/e/A") @@ (FileD.path :> "/D") @@
    (FileN.path :> "/A--and--B/note-name") @@
    (FileH.path :> "/c%23") @@
    (FileT.path :> "/T")

\* the step in which a call leaves the end of publishNote (lines 63-67) with something
\* published and a base URL, and the step in which the clipboard write settles
C12_UrlCopied ==
    \A i \in Invocations :
        /\ (/\ inv[i].pc = "finish" /\ inv'[i].pc # "finish"
            /\ inv[i].result.publishedFiles # {} /\ settings.baseUrl # "")
               => /\ inv'[i].pc = "clipboard"
                  /\ inv'[i].url = settings.baseUrl \o ExpectedUrlPath[inv[i].call.file.path]
        /\ (inv[i].pc = "clipboard" /\ inv'[i].pc = "return")
               => clipboard' = inv[i].url

\* C12: no URL is generated without a base URL; otherwise the URL is the base URL,
\* "/", and the source path of the root without .md, each segment with '&' and the
\* blanks around it turned into "--and--", runs of blanks into "-", and then
\* percent-encoded (A & B/note name.md with base http://x gives
\* http://x/A--and--B/note-name), whatever the target folder, the folder structure
\* setting and the prefix; the URL computed is the one written to the clipboard
C12_PublishedUrl ==
    /\ [][C12_UrlCopied]_vars
    /\ []((steady /\ settings.baseUrl = "") => clipboard = NoUrl)

\* the note of the README's example was published into pub/out, flat and prefixed
C12_Witness ==
    /\ pc = "return" /\ call.file = FileN
    /\ settings.targetFolderPath = <<"pub", "out">>
    /\ ~settings.preserveFolderStructure /\ settings.addPublishPrefix
    /\ <<"pub", "out", "published_note name.md">> \in DOMAIN files
    /\ clipboard = "http://x/A--and--B/note-name"

\* the token an exported drawing link becomes: an embed of an image of the _Image
\* folder with the display text of the link
ImageEmbedOf(fs, token, new) ==
    /\ new.bang = 1
    /\ new.disp = token.disp
    /\ Len(new.text) = 1
    /\ TargetImageFolder \o new.text \in DOMAIN fs
    /\ fs[TargetImageFolder \o new.text].binary = JoinPath(LinkTable[token.text].path)

\* C13: in the rewrite pass every link token, plain or embed, with or without display
\* text, whose target is a drawing that exports is replaced at its own position by an
\* image embed ![[image]] or ![[image|display text]] carrying the original display
\* text, and every link token whose target is not a drawing is left untouched
C13_RewriteInPlace ==
    (pc = "return" /\ alone /\ steady /\ NoStorageFault) =>
        \A p \in result.publishedFiles :
            LET dest == files[DestinationOf(p)].tokens
                src  == files[FileAt(LastCopiedTo(Record(inv[1], pc), DestinationOf(p))).path].tokens
            IN  /\ Len(dest) = Len(src)
                /\ \A i \in 1..Len(src) :
                       IF DrawingLink(files, src[i])
                       THEN ImageEmbedOf(files, src[i], dest[i])
                       ELSE dest[i] = src[i]

\* the name of the n-th image of drawing D: D.png, D_1.png, D_2.png, ...
ImageOfD(n) == IF n = 0 THEN "D.png" ELSE "D_" \o ToString(n) \o ".png"

\* the files directly inside <targetRoot>/_Image
InImageFolder(fs) ==
    {p \in DOMAIN fs : Len(p) = Len(settings.targetFolderPath) + 2
                         /\ SubSeq(p, 1, Len(p) - 1) = settings.targetFolderPath \o <<"_Image">>}

C14_ExportStep ==
    /\ \A p \in InImageFolder(files) : p \in DOMAIN files' /\ files'[p] = files[p]
    /\ \A p \in DOMAIN files' \ DOMAIN files :
           files'[p].binary = "D.md" =>
               \E n \in 0..Cardinality(DOMAIN files') :
                   /\ p = settings.targetFolderPath \o <<"_Image", ImageOfD(n)>>
                   /\ \A m \in 0..(n - 1) :
                          settings.targetFolderPath \o <<"_Image", ImageOfD(m)>> \in DOMAIN files'

\* C14: an exported drawing image is written to <targetRoot>/_Image/<base>.png or
\* <base>_<n>.png, n = 1, 2, ... tried in order, at a path that did not exist before
\* the write; over any sequence of publishes no file already in _Image is
\* overwritten or modified by an export (<targetRoot> being the target folder of the
\* settings, unchanged over the publishes)
C14_ImagesNeverOverwritten ==
    /\ [][steady' => C14_ExportStep]_vars
    /\ [](steady =>
             \A p \in DOMAIN files : files[p].binary = "D.md" => p \in InImageFolder(files))

\* the user's D.png is still there, next to the images of two publishes
C14_Witness ==
    /\ Len(past) = 2
    /\ settings.targetFolderPath = TargetFolder
    /\ {<<"700_Publish", "_Image", ImageOfD(n)>> : n \in 0..2} \subseteq DOMAIN files
    /\ files[<<"700_Publish", "_Image", "D.png">>] = Binary("old")
    /\ files[<<"700_Publish", "_Image", "D_1.png">>] = Binary("D.md")
    /\ files[<<"700_Publish", "_Image", "D_2.png">>] = Binary("D.md")

RECURSIVE SizeOfNotes(_)
\* the raw text lengths of a set of notes, each counted once
SizeOfNotes(fs) ==
    IF fs = {} THEN 0
    ELSE LET f == CHOOSE x \in fs : TRUE
         IN  TextLength(files[f.path]) + SizeOfNotes(fs \ {f})

\* the statistics were shown for a note and publishNote has run for the same note, with
\* linked notes and the depth of the settings, the settings unchanged and without any
\* I/O failure
PreviewedCall ==
    /\ stats # NoStats /\ pc = "idle" /\ past # <<>> /\ alone /\ steady
    /\ WalkCall /\ RequestedDepth = settings.maxDepth /\ maxDepth = settings.maxDepth
    /\ stats.file = call.file
    /\ NoStorageFault /\ result.errors = <<>>

\* C15: getPublishingStats previews publishNote: for every link graph, with no I/O
\* failure, totalFiles is the number of documents publishNote puts in publishedFiles
\* with includeLinked and the same settings, linkedFiles is exactly those documents
\* other than the root, and estimatedSize counts the text of each of them once
C15_StatsPreviewPublish ==
    PreviewedCall
    => /\ stats.totalFiles = Cardinality(result.publishedFiles)
       /\ {JoinPath(f.path) : f \in Range(stats.linkedFiles)}
              = result.publishedFiles \ {RootPath}
       /\ stats.estimatedSize
              = SizeOfNotes({f \in AllFiles : JoinPath(f.path) \in result.publishedFiles})

\* the files and folders of the vault at or under the configured target folder
UnderTarget ==
    {p \in DOMAIN files \cup folders :
        /\ Len(p) >= Len(settings.targetFolderPath)
        /\ SubSeq(p, 1, Len(settings.targetFolderPath)) = settings.targetFolderPath}

\* C16: publishNote never creates or modifies anything through a target folder path
\* holding "..", a backslash, ":" or a leading "/" (one isValidTargetPath rejects);
\* with such a target the call fails validation before any write
C16_NoWriteThroughInvalidTarget ==
    (settings.targetFolderPath # <<>> /\ ~IsValidTargetPath(settings.targetFolderPath))
    => /\ UnderTarget = {}
       /\ pc = "return" => (result.publishedFiles = {} /\ result.errors # <<>>)

\* C17: a failure at one node does not halt the rest of the traversal: when
\* materializing a document fails, its outgoing links are still enumerated and
\* followed, so every document it links (not excluded) has been visited, or skipped
\* for its depth, when the walk returns
C17_FailedNodeLinksFollowed ==
    (pc = "finish" /\ alone /\ steady /\ WalkCall)
    => \A x \in FailedPaths : Succ(x) \subseteq visited \cup result.skippedFiles

\* C18: the exclusion patterns applied to the links during a walk are the
\* excludePatterns of the options of the call: the links followed from a note are
\* exactly those whose text no pattern of options.excludePatterns matches, whatever
\* pattern list the settings store
C18_OptionPatternsApplied ==
    (pc = "walk" /\ call.options.excludePatterns # Undefined)
    => \A i \in LoopFrames :
           stack[i].linkedFiles
               = KeptBy(call.options.excludePatterns[1], files[stack[i].file.path].tokens)

\* the only failures are those of the render of drawings, always or the first time
OnlyRendersFail ==
    \A p \in DOMAIN faults :
        faults[p] # "none" => /\ p \in DOMAIN files /\ files[p].drawing
                              /\ faults[p] \in {"render", "render once"}

\* processing the i-th token of the note fails: its target does not resolve, or is a
\* drawing that does not render, or does not render this first time
TokenFails(tokens, i) ==
    \/ tokens[i].text \notin DOMAIN LinkTable
    \/ LinkTable[tokens[i].text].path \notin DOMAIN files
    \/ /\ DrawingLink(files, tokens[i])
       /\ \/ FaultOf(LinkTable[tokens[i].text].path) = "render"
          \/ /\ FaultOf(LinkTable[tokens[i].text].path) = "render once"
             /\ \A j \in 1..(i - 1) : ~(/\ DrawingLink(files, tokens[j])
                                         /\ LinkTable[tokens[j].text] = LinkTable[tokens[i].text])

\* C19: when processing one drawing link token fails (target not resolved, render
\* giving nothing), that token is left unmodified in the copy, the
\* other tokens of the document are still processed (also when another token has the
\* same target, plain or embedded), nothing is added to errors and the document is in
\* publishedFiles
C19_FailedTokenLeftAlone ==
    (/\ pc = "return" /\ alone /\ steady /\ OnlyRendersFail
     /\ ValidatePublishPrerequisites(call.file).isValid)
    => /\ result.errors = <<>>
       /\ RootPath \in result.publishedFiles
       /\ LET src  == files[call.file.path].tokens
              dest == files[GetTargetPath(call.file)].tokens
          IN  /\ Len(dest) = Len(src)
              /\ \A i \in 1..Len(src) :
                     IF TokenFails(src, i) THEN dest[i] = src[i]
                     ELSE DrawingLink(files, src[i]) => dest[i].bang >= 1
                                                        /\ dest[i].text \notin DOMAIN LinkTable

\* C20: after a publishNote call publishedFiles and skippedFiles are disjoint: a path
\* skipped for its depth is not also published in the same traversal, also when the
\* document is reached by a long chain and by a shorter one
C20_PublishedSkippedDisjoint ==
    (pc = "return" /\ alone) => result.publishedFiles \cap result.skippedFiles = {}

\* C21: within one traversal distinct source paths of publishedFiles are written to
\* distinct destination paths, so when the walk has returned the destination of every
\* published document holds that document's own content (links to drawings apart);
\* with the folder structure preserved and in the flat mode
C21_DistinctDestinations ==
    (pc = "return" /\ alone /\ steady /\ WalkCall /\ NoStorageFault /\ result.errors = <<>>)
    => /\ \A p, q \in result.publishedFiles :
              p # q => DestinationOf(p) # DestinationOf(q)
       /\ \A p \in result.publishedFiles :
              /\ DestinationOf(p) \in DOMAIN files
              /\ DrawingLinksApart(files, files[DestinationOf(p)], files[FileAt(p).path])

=============================================================================
